---- MODULE Spec2Model ----
(***************************************************************************)
(* A model of the resilient request core of go-antidetect's bitbrowser     *)
(* client: the error taxonomy and its retryability classifier (errors.go), *)
(* the retry engine (retry.go) and the managed-port Open protocol          *)
(* (client.go, port manager).                                              *)
(*                                                                         *)
(* The specifications of the module, each over its own variables:          *)
(*   SpecClassify  IsRetryable applied to an error chain                   *)
(*   SpecRetry     one run of retryer.do                                   *)
(*   Spec          two clients running Open in Managed Mode against one    *)
(*                 BitBrowser service                                      *)
(*   SpecPick      PortManager.PickPortExcluding                           *)
(*   SpecEndpoint  one call of Open, OpenRaw or WaitForReady; FairEndpoint *)
(*                 is the same with its steps taken fairly                 *)
(*   SpecRequest   one doOpenRequest under the retry engine                *)
(*   SpecMode      New and the branch Open takes                           *)
(*   SpecDelay     the delays of retryer.calculateDelay                    *)
(*   SpecConfig    the /browser/open request Open builds from its options  *)
(***************************************************************************)
EXTENDS Integers, Sequences, FiniteSets, TLC

VARIABLES
    \* ---- IsRetryable (errors.go) ----
    cErr,        \* the error handed to IsRetryable
    cRes,        \* its answer (FALSE until it has been called)
    cDone,       \* IsRetryable has returned
    \* ---- retryer.do (retry.go) ----
    rPc,         \* position in do: "start", "check", "call", "sleep", "done"
    rGivenMax,   \* the MaxAttempts the policy was built with
    rMaxAttempts,\* r.config.MaxAttempts (do writes it when it is <= 0)
    rRetryIf,    \* r.config.RetryIf: "nil" (use IsRetryable), "always", "never"
    rAttempt,    \* the loop variable attempt
    rLastErr,    \* the local lastErr
    rErrs,       \* what each invocation of fn returned, in order
    rCtx,        \* the context: "live", "canceled" or "deadline"
    rEntryCtx,   \* the context's state when do was entered
    rCancelAt,   \* where do stood when the context was cancelled
    rResult,     \* what do returned (meaningful once rPc = "done")
    \* ---- the BitBrowser service ----
    bound,       \* profile ID -> the debug port its browser is bound to (0: closed)
    \* ---- Client.Open in Managed Mode (client.go), per client ----
    pc,          \* "idle", "snapshot", "open", "verify", "close", "done"
    attempt,     \* the loop variable attempt of openWithManagedPort
    usedPorts,   \* the local usedPorts of the attempt, from the snapshot query to
                 \* the open request, its last use
    port,        \* the local port of the attempt (0: none picked yet)
    snapErr,     \* the attempt's getUsedPortsSet error, from the snapshot query to
                 \* the open request: "unset", "nil" or "err"
    sentArgs,    \* config.Args of the call's latest open request
    openRes,     \* the OpenResult of the attempt's open request
    verifyErr,   \* the attempt's verifyErr: "unset", "nil" or "err"
    actualPort,  \* the attempt's actualPort
    lastErr,     \* the local lastErr
    ret,         \* what Open returned: "none" while it runs
    retRes,      \* the OpenResult Open returned
    nOpen,       \* open requests the call has issued
    nClose,      \* close requests the call has issued
    nMismatch,   \* ownership mismatches the call has detected
    portRetries, \* c.portConfig.MaxRetries of the client
    \* ---- PortManager.PickPortExcluding (port manager) ----
    pkExcluded,  \* the map[int]bool handed in: port -> "absent", "false" or "true"
    pkPort,      \* the port returned (0 with an error)
    pkErr,       \* the error returned: "nil" or its name
    pkDone,      \* PickPortExcluding has returned
    \* ---- Open's native branch, OpenRaw and WaitForReady (client.go) ----
    eOp,         \* the call: "OpenManaged", "OpenNative", "OpenRaw", "WaitForReady"
    ePc,         \* "idle", "wait" (at the loop's select), "query", "version", "done"
    eWaitReady,  \* opts.WaitReady
    eTimeout,    \* opts.WaitTimeout, or WaitForReady's timeoutSeconds
    ePollInterval, \* opts.PollInterval
    ePolls,      \* iterations of waitForBrowserReady's loop still to run
    eCtx,        \* the call's context: "live" or "canceled"
    eCancelAt,   \* where the call stood when the context was cancelled
    eOpens,      \* /browser/open requests (doRequest calls) the call has made
    eAnswer,     \* what the /browser/open request came to
    eQueries,    \* GetPorts calls waitForBrowserReady's loop has started
    eWaited,     \* seconds the loop has slept in time.After
    eVersion,    \* what GetBrowserVersion came to: "none", "err", "noWs", "ws"
    eRet,        \* what the call returned: "none" while it runs
    eRes,        \* the OpenResult the call builds and returns
    eWs,         \* the returned OpenResult has its Ws field set
    \* ---- doOpenRequest: doRequest, executeRequest and the envelope (client.go) ----
    hOut,        \* what the HTTP round trip of each executeRequest came to, in order
    hExec,       \* what each executeRequest returned and left in respBody, in order
    hRequests,   \* HTTP requests the service has observed
    hErr,        \* the error doOpenRequest returned
    hDone,       \* doOpenRequest has returned
    \* ---- New and the branch Open takes (client.go, config.go) ----
    mMin,        \* c.portConfig.MinPort after the options
    mMax,        \* c.portConfig.MaxPort after the options
    mHost,       \* extractHost(c.apiURL): "ok" or "bad"
    mBuilt,      \* New: "no" before it, then "yes", or "error" (no client)
    mManager,    \* c.portManager != nil
    mBranch,     \* the branch of the latest Open: "none", "managed", "native"
    mOpens,      \* Open calls made
    \* ---- retryer.calculateDelay (retry.go) ----
    dBase,       \* config.BaseDelay, in ticks
    dMax,        \* config.MaxDelay, in ticks (0: not set)
    dMult,       \* config.Multiplier, in halves
    dJitter,     \* config.Jitter, in halves
    dAttempt,    \* the attempt whose delay is computed next
    dDelays,     \* the delays computed for attempts 1, 2, ..., in order
    \* ---- the request Open builds (client.go, types) ----
    oId,         \* the profile ID handed to Open
    oOpts,       \* the *OpenOptions handed to Open (isNil: a nil pointer)
    oBranch,     \* the branch Open takes: "managed" or "native"
    oPc,         \* "idle", "built" (the OpenConfig is made), "sent"
    oConfig,     \* the OpenConfig the branch built
    oBody        \* the JSON object of the request: "absent" for an omitted field

classifyVars == <<cErr, cRes, cDone>>
retryVars == <<rPc, rGivenMax, rMaxAttempts, rRetryIf, rAttempt, rLastErr, rErrs, rCtx,
               rEntryCtx, rCancelAt, rResult>>

openVars == <<bound, pc, attempt, usedPorts, port, snapErr, sentArgs, openRes, verifyErr, actualPort,
              lastErr, ret, retRes, nOpen, nClose, nMismatch, portRetries>>
pickVars == <<pkExcluded, pkPort, pkErr, pkDone>>
endpointVars == <<eOp, ePc, eWaitReady, eTimeout, ePollInterval, ePolls, eCtx, eCancelAt,
                  eOpens, eAnswer, eQueries, eWaited, eVersion, eRet, eRes, eWs>>
requestVars == <<hOut, hExec, hRequests, hErr, hDone>>
modeVars == <<mMin, mMax, mHost, mBuilt, mManager, mBranch, mOpens>>
delayVars == <<dBase, dMax, dMult, dJitter, dAttempt, dDelays>>
configVars == <<oId, oOpts, oBranch, oPc, oConfig, oBody>>
vars == <<classifyVars, retryVars, openVars, pickVars, endpointVars, requestVars, modeVars,
          delayVars, configVars>>

\* what the steps of one component leave alone: the other components
outsideClassify == <<retryVars, openVars, pickVars, endpointVars, requestVars,
    modeVars, delayVars, configVars>>
outsideRetry == <<classifyVars, openVars, pickVars, endpointVars, requestVars,
    modeVars, delayVars, configVars>>
outsideOpen == <<classifyVars, retryVars, pickVars, endpointVars, requestVars,
    modeVars, delayVars, configVars>>
outsidePick == <<classifyVars, retryVars, openVars, endpointVars, requestVars,
    modeVars, delayVars, configVars>>
\* a request runs the retry engine: retryVars are its own
outsideRequest == <<classifyVars, openVars, pickVars, endpointVars, modeVars, delayVars,
                    configVars>>
outsideMode == <<classifyVars, retryVars, openVars, pickVars, endpointVars, requestVars,
                 delayVars, configVars>>
outsideConfig == <<classifyVars, retryVars, openVars, pickVars, endpointVars, requestVars,
                   modeVars, delayVars>>
outsideDelay == <<classifyVars, retryVars, openVars, pickVars, endpointVars, requestVars,
                  modeVars, configVars>>
\* the native calls talk to the same service: bound is theirs too
outsideEndpoint == <<classifyVars, retryVars, pickVars, requestVars, modeVars, delayVars,
                     configVars,
                     pc, attempt, usedPorts, port,
                     snapErr, sentArgs, openRes, verifyErr, actualPort, lastErr, ret,
                     retRes, nOpen, nClose, nMismatch, portRetries>>

(***************************************************************************)
(* Bounds of the model.                                                    *)
(***************************************************************************)
\* longest error chain handed to IsRetryable
MaxChain == 2
\* largest MaxAttempts a retry policy is given
MaxPolicyAttempts == 3
\* PortConfig.MinPort of the clients
MinPort == 9
\* largest WaitTimeout / timeoutSeconds a caller passes, in seconds
MaxWait == 4
\* number of ports in the clients' range: MaxPort - MinPort + 1
PortCount == 2
\* PortConfig.MaxRetries of the clients
MaxRetries == 2
\* Open calls made through one client
MaxOpens == 2
\* attempts whose delay is computed
MaxDelayAttempts == 4

(***************************************************************************)
(* Errors.  A Go error and the errors it wraps form a chain; the chain is  *)
(* a sequence of layers, outermost first, and Unwrap is Tail.  The nil     *)
(* error is the empty chain.                                               *)
(***************************************************************************)
Nil == <<>>

\* HTTP status codes an APIError is given (0: not applicable)
StatusCodes == {0, 400, 404, 429, 499, 500, 501, 502, 503, 504, 505, 599}

Layer(k, s, a) == [kind |-> k, status |-> s, attempts |-> a]

\* errors.New values and the context package's two errors: they wrap nothing;
\* ValidationError.Unwrap returns nil
LeafKinds == {"Validation", "Plain", "Canceled", "DeadlineExceeded"}
\* *url.Error / fmt.Errorf("%w") wrappers and the typed errors with an Err field
WrapKinds == {"Network", "Timeout", "Wrap"}

Layers ==
    {Layer(k, 0, 0) : k \in LeafKinds \cup WrapKinds}
        \cup {Layer("API", s, 0) : s \in StatusCodes}
        \cup {Layer("Retry", 0, a) : a \in 1..MaxPolicyAttempts}

IsLeaf(l) == l.kind \in LeafKinds

\* the error chains of length 1..n: only the innermost layer may be a leaf kind
Chains(n) ==
    UNION {{c \in [1..k -> Layers] : \A i \in 1..(k - 1) : ~IsLeaf(c[i])} : k \in 1..n}

NewNetworkError(err) == <<Layer("Network", 0, 0)>> \o err
NewTimeoutError(err) == <<Layer("Timeout", 0, 0)>> \o err
NewAPIError(statusCode) == <<Layer("API", statusCode, 0)>>
NewValidationError == <<Layer("Validation", 0, 0)>>
NewRetryError(attempts, err) == <<Layer("Retry", 0, attempts)>> \o err
Errorf(err) == <<Layer("Wrap", 0, 0)>> \o err
PlainError == <<Layer("Plain", 0, 0)>>
ctxCanceled == <<Layer("Canceled", 0, 0)>>
ctxDeadlineExceeded == <<Layer("DeadlineExceeded", 0, 0)>>

\* the Is method of each error type: target == ErrX for the type's own sentinel
LayerIs(l, target) ==
    CASE target = "ErrNetwork" -> l.kind = "Network"
      [] target = "ErrAPI" -> l.kind = "API"
      [] target = "ErrValidation" -> l.kind = "Validation"
      [] target = "ErrTimeout" -> l.kind = "Timeout"
      [] target = "ErrRetryExhausted" -> l.kind = "Retry"
      [] target = "Canceled" -> l.kind = "Canceled"
      [] target = "DeadlineExceeded" -> l.kind = "DeadlineExceeded"
      [] OTHER -> FALSE

\* errors.Is: walks the chain through Unwrap
RECURSIVE ErrorsIs(_, _)
ErrorsIs(err, target) ==
    IF err = Nil THEN FALSE
    ELSE IF LayerIs(Head(err), target) THEN TRUE
    ELSE ErrorsIs(Tail(err), target)

\* errors.As(err, &apiErr): the first *APIError of the chain, Nil if none
RECURSIVE ErrorsAsAPI(_)
ErrorsAsAPI(err) ==
    IF err = Nil THEN Nil
    ELSE IF Head(err).kind = "API" THEN err
    ELSE ErrorsAsAPI(Tail(err))

\* IsRetryable taking every API error as retryable
IsRetryableAnyStatus(err) ==
    IF err = Nil THEN FALSE
    ELSE ErrorsIs(err, "ErrNetwork") \/ ErrorsIs(err, "ErrTimeout")
             \/ ErrorsAsAPI(err) # Nil

\* IsRetryable with the retryable statuses kept as a list of five codes
IsRetryableListedCodes(err) ==
    IF err = Nil THEN FALSE
    ELSE IF ErrorsIs(err, "ErrNetwork") THEN TRUE
    ELSE IF ErrorsIs(err, "ErrTimeout") THEN TRUE
    ELSE IF ErrorsAsAPI(err) # Nil THEN
        Head(ErrorsAsAPI(err)).status \in {429, 500, 502, 503, 504}
    ELSE FALSE

IsRetryable(err) ==
    IF err = Nil THEN FALSE
    ELSE IF ErrorsIs(err, "ErrNetwork") THEN TRUE
    ELSE IF ErrorsIs(err, "ErrTimeout") THEN TRUE
    ELSE IF ErrorsAsAPI(err) # Nil THEN
        LET apiErr == Head(ErrorsAsAPI(err)) IN
        IF apiErr.status >= 500 THEN TRUE
        ELSE IF apiErr.status = 429 THEN TRUE
        ELSE IF apiErr.status = 503 THEN TRUE
        ELSE IF apiErr.status = 502 \/ apiErr.status = 504 THEN TRUE
        ELSE FALSE
    ELSE IF ErrorsIs(err, "ErrValidation") THEN FALSE
    ELSE IF ErrorsIs(err, "ErrRetryExhausted") THEN FALSE
    ELSE FALSE

(***************************************************************************)
(* retryer.do (retry.go).  fn is the caller's operation: every invocation  *)
(* returns nil or one of OpErrors.                                         *)
(***************************************************************************)
\* what the operations wrapped by the retry engine return: executeRequest's
\* errors (client.go) and the plain and validation errors of its callers
OpErrors ==
    {NewNetworkError(PlainError), NewTimeoutError(ctxDeadlineExceeded),
     Errorf(ctxCanceled), NewAPIError(400), NewAPIError(500),
     NewValidationError, PlainError}

\* the predicates a policy carries: nil selects IsRetryable
RetryIfs == {"nil", "always", "never"}

\* retryIf(lastErr)
RetryIf(p, err) ==
    CASE p = "nil" -> IsRetryable(err)
      [] p = "always" -> TRUE
      [] p = "never" -> FALSE

\* ctx.Err()
CtxErr(ctx) == IF ctx = "deadline" THEN ctxDeadlineExceeded ELSE ctxCanceled

\* MaxAttempts used as it was given
NormalizeMaxAttemptsKept(n) == n

\* lines 66-69: a MaxAttempts <= 0 is written back as 1
NormalizeMaxAttempts(n) == IF n <= 0 THEN 1 ELSE n

\* the context check reporting every cancellation as exhausted
CtxCheckResultAlwaysWrapped(n, err, ctx) == NewRetryError(n - 1, err)

\* the context check counting the attempt it has not made
CtxCheckResultCountsNext(n, err, ctx) ==
    IF err # Nil THEN NewRetryError(n, err) ELSE CtxErr(ctx)

\* lines 79-84: the context is done before an attempt
CtxCheckResult(n, err, ctx) ==
    IF err # Nil THEN NewRetryError(n - 1, err) ELSE CtxErr(ctx)

\* the loop's end without the wrapping
AfterLoopRaw(maxAttempts, err) == err

\* the loop's end without the single-attempt case
AfterLoopAlwaysWrapped(maxAttempts, err) == NewRetryError(maxAttempts, err)

\* lines 113-117: the loop has ended without a return
AfterLoop(maxAttempts, err) ==
    IF maxAttempts > 1 THEN NewRetryError(maxAttempts, err) ELSE err

\* the cancelled sleep returning the context's error
SleepCancelResultPlain(n, err) == ctxCanceled

\* line 107: the context is done during the backoff sleep
SleepCancelResult(n, err) == NewRetryError(n, err)

\* the predicate's answer ignored
ShouldStopNever(p, err) == FALSE

\* line 97: the predicate refuses a retry
ShouldStop(p, err) == ~RetryIf(p, err)

\* the loop giving up one attempt early
LastAttemptOffByOne(n, maxAttempts) == n + 1 >= maxAttempts

\* the budget test left out, the predicate deciding every attempt
LastAttemptUnchecked(n, maxAttempts) == FALSE

\* line 93: no attempt is left after this one
LastAttempt(n, maxAttempts) == n >= maxAttempts

RetryReturn(err) ==
    /\ rPc' = "done"
    /\ rResult' = err

RetryInit ==
    /\ rPc = "start"
    /\ rGivenMax \in (0 - 1)..MaxPolicyAttempts
    /\ rMaxAttempts = rGivenMax
    /\ rRetryIf \in RetryIfs
    /\ rAttempt = 0
    /\ rLastErr = Nil
    /\ rErrs = <<>>
    /\ rCtx = "live"
    /\ rEntryCtx = "unset"
    /\ rCancelAt = [pc |-> "never", calls |-> 0]
    /\ rResult = Nil

\* do is entered: lines 66-77 up to the first loop test
RetryBegin ==
    /\ UNCHANGED outsideRetry
    /\ rPc = "start"
    /\ rMaxAttempts' = NormalizeMaxAttempts(rMaxAttempts)
    /\ rAttempt' = 1
    /\ rLastErr' = Nil
    /\ rEntryCtx' = rCtx
    /\ rPc' = "check"
    /\ UNCHANGED <<rGivenMax, rRetryIf, rErrs, rCtx, rCancelAt, rResult>>

\* the loop test and the context check before an attempt: lines 77-84
RetryCheck ==
    /\ UNCHANGED outsideRetry
    /\ rPc = "check"
    /\ IF rAttempt > rMaxAttempts
         THEN RetryReturn(AfterLoop(rMaxAttempts, rLastErr))
         ELSE IF rCtx # "live"
           THEN RetryReturn(CtxCheckResult(rAttempt, rLastErr, rCtx))
           ELSE rPc' = "call" /\ UNCHANGED rResult
    /\ UNCHANGED <<rGivenMax, rMaxAttempts, rRetryIf, rAttempt, rLastErr, rErrs, rCtx,
                   rEntryCtx, rCancelAt>>

\* fn is invoked and its result examined: lines 87-99
RetryCallWith(e) ==
    /\ rPc = "call"
    /\ rErrs' = Append(rErrs, e)
    /\ rLastErr' = e
    /\ IF e = Nil THEN RetryReturn(Nil)
       ELSE IF LastAttempt(rAttempt, rMaxAttempts)
         THEN RetryReturn(AfterLoop(rMaxAttempts, e))
       ELSE IF ShouldStop(rRetryIf, e) THEN RetryReturn(e)
       ELSE rPc' = "sleep" /\ UNCHANGED rResult
    /\ UNCHANGED <<rGivenMax, rMaxAttempts, rRetryIf, rAttempt, rCtx, rEntryCtx, rCancelAt>>

\* fn is the caller's operation, returning nil or one of OpErrors
RetryCall ==
    /\ UNCHANGED outsideRetry
    /\ \E e \in OpErrors \cup {Nil} : RetryCallWith(e)

\* the select's timer case: lines 108-110 and the loop's attempt++.  The timer
\* can win the select also when the context is done.
RetrySleepTimer ==
    /\ UNCHANGED outsideRetry
    /\ rPc = "sleep"
    /\ rAttempt' = rAttempt + 1
    /\ rPc' = "check"
    /\ UNCHANGED <<rGivenMax, rMaxAttempts, rRetryIf, rLastErr, rErrs, rCtx, rEntryCtx,
                   rCancelAt, rResult>>

\* the select's ctx.Done() case: lines 106-107
RetrySleepCancelled ==
    /\ UNCHANGED outsideRetry
    /\ rPc = "sleep"
    /\ rCtx # "live"
    /\ RetryReturn(SleepCancelResult(rAttempt, rLastErr))
    /\ UNCHANGED <<rGivenMax, rMaxAttempts, rRetryIf, rAttempt, rLastErr, rErrs, rCtx,
                   rEntryCtx, rCancelAt>>

\* the caller cancels the context, or its deadline passes
RetryCancel ==
    /\ UNCHANGED outsideRetry
    /\ rPc # "done"
    /\ rCtx = "live"
    /\ rCtx' \in {"canceled", "deadline"}
    /\ rCancelAt' = [pc |-> rPc, calls |-> Len(rErrs)]
    /\ UNCHANGED <<rPc, rGivenMax, rMaxAttempts, rRetryIf, rAttempt, rLastErr,
                   rErrs, rEntryCtx, rResult>>

\* the retry engine at rest, for the specifications that do not run it
RetryIdle ==
    /\ rPc = "idle"
    /\ rGivenMax = 1
    /\ rMaxAttempts = 1
    /\ rRetryIf = "nil"
    /\ rAttempt = 0
    /\ rLastErr = Nil
    /\ rErrs = <<>>
    /\ rCtx = "live"
    /\ rEntryCtx = "unset"
    /\ rCancelAt = [pc |-> "never", calls |-> 0]
    /\ rResult = Nil

(***************************************************************************)
(* SpecClassify: IsRetryable is handed an error chain.                     *)
(***************************************************************************)
ClassifyInit ==
    /\ cErr \in Chains(MaxChain) \cup {Nil}
    /\ cRes = FALSE
    /\ cDone = FALSE

Classify ==
    /\ UNCHANGED outsideClassify
    /\ ~cDone
    /\ cRes' = IsRetryable(cErr)
    /\ cDone' = TRUE
    /\ UNCHANGED cErr

\* the classifier at rest, for the specifications that do not run it
ClassifyIdle ==
    /\ cErr = Nil
    /\ cRes = FALSE
    /\ cDone = TRUE

ClassifyNext == Classify

RetryNext ==
    \/ RetryBegin
    \/ RetryCheck
    \/ RetryCall
    \/ RetrySleepTimer
    \/ RetrySleepCancelled
    \/ RetryCancel

(***************************************************************************)
(* Strings.  The port strings of /browser/ports are sequences of decimal   *)
(* digits; messages are sequences of words.                                *)
(***************************************************************************)
\* the decimal digits of n: how the service prints a port
RECURSIVE Itoa(_)
Itoa(n) == IF n < 10 THEN <<n>> ELSE Itoa(n \div 10) \o <<n % 10>>

RECURSIVE ScanDigits(_, _)
ScanDigits(s, acc) ==
    IF s = <<>> THEN acc ELSE ScanDigits(Tail(s), acc * 10 + Head(s))

\* fmt.Sscanf(s, "%d", &n) on a string of digits: n stays 0 and an error is
\* returned when there is nothing to scan
Sscanf(s) == [n |-> ScanDigits(s, 0), ok |-> s # <<>>]

\* strings.ToLower, word by word
LowerWord(w) ==
    CASE w = "Address" -> "address"
      [] w = "Port" -> "port"
      [] OTHER -> w

ToLower(s) == [i \in 1..Len(s) |-> LowerWord(s[i])]

\* strings.Contains
Contains(s, sub) ==
    \E i \in 0..(Len(s) - Len(sub)) : SubSeq(s, i + 1, i + Len(sub)) = sub

(***************************************************************************)
(* The port range and the port manager.                                    *)
(***************************************************************************)
MaxPort == MinPort + PortCount - 1

\* the range taken as configured whenever both ends are non-zero
IsManagedNonZero(minPort, maxPort) == minPort # 0 /\ maxPort # 0

\* PortConfig.IsManaged
IsManaged(minPort, maxPort) == minPort > 0 /\ maxPort > 0 /\ minPort <= maxPort

\* PortConfig.PortRangeSize
PortRangeSize(minPort, maxPort) ==
    IF ~IsManaged(minPort, maxPort) THEN 0 ELSE maxPort - minPort + 1

\* PortManager.IsActive of a client built with the range
IsActive == IsManaged(MinPort, MaxPort)

\* generateShuffledPorts: every order of the range's ports can come out
ShuffledPorts ==
    LET size == PortRangeSize(MinPort, MaxPort) IN
    {p \in [1..size -> MinPort..(MinPort + size - 1)] :
        \A i, j \in 1..size : i # j => p[i] # p[j]}

\* the scan taking the shuffle's first port whatever the map says
FirstOfShuffle(ports, excluded) == IF ports = <<>> THEN 0 ELSE Head(ports)

\* lines 69-76: the first port of the shuffle the map does not exclude
RECURSIVE FirstNotExcluded(_, _)
FirstNotExcluded(ports, excluded) ==
    IF ports = <<>> THEN 0
    ELSE IF Head(ports) \in excluded THEN FirstNotExcluded(Tail(ports), excluded)
    ELSE Head(ports)

\* the pick falling back on the shuffle's first port when every port is excluded
PickPortExcludingFallsBack(excluded, ports) ==
    IF ~IsActive \/ Len(ports) = 0 THEN 0
    ELSE IF FirstNotExcluded(ports, excluded) = 0 THEN Head(ports)
    ELSE FirstNotExcluded(ports, excluded)

\* PickPortExcluding over one shuffle: the first port that is not excluded,
\* 0 standing for the "no available port" error
PickPortExcluding(excluded, ports) ==
    IF ~IsActive \/ Len(ports) = 0 THEN 0 ELSE FirstNotExcluded(ports, excluded)

(***************************************************************************)
(* SpecPick: PickPortExcluding is handed a map of excluded ports.          *)
(***************************************************************************)
\* the keys a caller's map may hold: the range's ports and one port on each
\* side of the range
ExcludedKeys == (MinPort - 1)..(MaxPort + 1)

\* excluded[port]: a missing key and a key mapped to false both read false
TrueKeys(m) == {p \in DOMAIN m : m[p] = "true"}

\* the error PickPortExcluding returns with the port PickPortExcluding gives
PickPortError(picked, ports) ==
    IF ~IsActive THEN "port manager not configured"
    ELSE IF Len(ports) = 0 THEN "no ports in range"
    ELSE IF picked = 0 THEN "no available port in range"
    ELSE "nil"

PickInit ==
    /\ pkExcluded \in [ExcludedKeys -> {"absent", "false", "true"}]
    /\ pkPort = 0
    /\ pkErr = "unset"
    /\ pkDone = FALSE

Pick ==
    /\ UNCHANGED outsidePick
    /\ ~pkDone
    /\ \E ports \in ShuffledPorts :
         LET picked == PickPortExcluding(TrueKeys(pkExcluded), ports) IN
         /\ pkPort' = picked
         /\ pkErr' = PickPortError(picked, ports)
    /\ pkDone' = TRUE
    /\ UNCHANGED pkExcluded

\* the port manager at rest, for the specifications that do not run it
PickIdle ==
    /\ pkExcluded = [p \in ExcludedKeys |-> "absent"]
    /\ pkPort = 0
    /\ pkErr = "unset"
    /\ pkDone = TRUE

PickNext == Pick

(***************************************************************************)
(* The BitBrowser service, as client.go describes it (lines 423-452): it   *)
(* keeps one debug port per open profile and never gives one port to two  *)
(* profiles.                                                               *)
(***************************************************************************)
Profiles == {"p1", "p2"}

\* the ports a browser may end up on
ServicePorts == MinPort..MaxPort

FreePorts(b) == {q \in ServicePorts : \A p \in Profiles : b[p] # q}

\* the response of /browser/ports: profile ID -> port string ("" when closed)
PortsSnapshot(b) == [p \in Profiles |-> IF b[p] = 0 THEN <<>> ELSE Itoa(b[p])]

\* what a processed /browser/open of profile id can leave behind: a profile
\* that is open stays where it is; otherwise the browser starts on a free port
\* (the requested one or another) or does not start at all
OpenEffects(b, id) ==
    IF b[id] # 0 THEN {b}
    ELSE {b} \cup {[b EXCEPT ![id] = q] : q \in FreePorts(b)}

\* the OpenResult the service answers with: the profile's own browser, or the
\* browser that holds the requested port, or nothing
ServiceResult(b, id, p) ==
    [port |-> IF b[id] # 0 THEN b[id]
              ELSE IF \E q \in Profiles : b[q] = p THEN p ELSE 0,
     scheme |-> FALSE]

\* what a /browser/close of profile id can leave behind when the client saw it
\* succeed, and when the client saw it fail
CloseEffects(b, id, ok) ==
    IF ok THEN {[b EXCEPT ![id] = 0]} ELSE {b, [b EXCEPT ![id] = 0]}

(***************************************************************************)
(* Errors of the open request: the typed chain and the text of Error().    *)
(***************************************************************************)
OpenErr(chain, msg) == [chain |-> chain, msg |-> msg]

NoErr == OpenErr(Nil, <<>>)

\* the failures doOpenRequest returns: a success=false message of the service
\* (lines 663-665) or a doRequest error (lines 660-662)
OpenErrors ==
    {OpenErr(PlainError, <<"listen", "tcp:", "Address", "already", "in", "use">>),
     OpenErr(PlainError, <<"profile", "already", "opened">>),
     OpenErr(NewNetworkError(PlainError), <<"connection", "refused">>)}

\* line 471
MismatchErr == OpenErr(PlainError, <<"port", "ownership", "mismatch">>)

ConflictPhrases ==
    {<<"address", "already", "in", "use">>,
     <<"port", "is", "already", "in", "use">>,
     <<"zh:port-taken">>,
     <<"zh:port-already">>,
     <<"port", "occupied">>,
     <<"bind:", "address", "already", "in", "use">>}

\* the conflict test matching on the word "already" alone
isPortConflictErrorLoose(err) ==
    IF err = NoErr THEN FALSE
    ELSE Contains(ToLower(err.msg), <<"already">>)

isPortConflictError(err) ==
    IF err = NoErr THEN FALSE
    ELSE \E ph \in ConflictPhrases : Contains(ToLower(err.msg), ph)

(***************************************************************************)
(* Chrome launch arguments: a list of flags, each with its value.          *)
(***************************************************************************)
Arg(flag, val) == [flag |-> flag, val |-> val]

PortArg(p) == Arg("--remote-debugging-port", p)

AddressArg == Arg("--remote-debugging-address", "0.0.0.0")

\* OpenOptions, the fields the argument builders read
OpenOptionsOf(headless, lan, incognito, customPort, gpuOff, extensions, extra) ==
    [Headless |-> headless, AllowLAN |-> lan, Incognito |-> incognito,
     CustomPort |-> customPort, DisableGPU |-> gpuOff,
     LoadExtensions |-> extensions, ExtraArgs |-> extra]

\* the caller's ExtraArgs
ExtraArgSets == {<<>>, <<Arg("--no-sandbox", "")>>}

\* the options a caller may pass: CustomPort unset, a port of the managed range,
\* a port outside it
AllOptions ==
    {OpenOptionsOf(h, lan, FALSE, cp, g, ext, extra) :
        h \in BOOLEAN, lan \in BOOLEAN, cp \in {0, MinPort, MaxPort + 1},
        g \in BOOLEAN, ext \in {"", "/ext"}, extra \in ExtraArgSets}

\* the optional flags both builders append: lines 590-611 and 631-652
CommonArgs(o) ==
    (IF o.Headless THEN <<Arg("--headless", "")>> ELSE <<>>)
        \o (IF o.Incognito THEN <<Arg("--incognito", "")>> ELSE <<>>)
        \o (IF o.DisableGPU THEN <<Arg("--disable-gpu", "")>> ELSE <<>>)
        \o (IF o.LoadExtensions # "" THEN <<Arg("--load-extension", o.LoadExtensions)>>
            ELSE <<>>)
        \o o.ExtraArgs

\* buildNativeArgs
buildNativeArgs(o) ==
    (IF o.CustomPort > 0 THEN <<PortArg(o.CustomPort)>> ELSE <<>>)
        \o (IF o.AllowLAN THEN <<AddressArg>> ELSE <<>>)
        \o CommonArgs(o)

\* the managed branch building its arguments as the native branch does
buildManagedArgsFromOptions(p, o) == buildNativeArgs(o)

\* buildManagedArgs
buildManagedArgs(p, o) == <<PortArg(p), AddressArg>> \o CommonArgs(o)

(***************************************************************************)
(* Client.Open in Managed Mode.  Every client opens the profile of its own *)
(* name; a request and the service's answer to it are one step.            *)
(***************************************************************************)
Clients == Profiles

\* the options each client calls Open with
Opts(c) ==
    IF c = "p1" THEN OpenOptionsOf(FALSE, FALSE, FALSE, MinPort, FALSE, "", <<>>)
    ELSE OpenOptionsOf(TRUE, TRUE, FALSE, MaxPort + 1, TRUE, "/ext",
                       <<Arg("--no-sandbox", "")>>)

NoResult == [port |-> 0, scheme |-> FALSE]

\* the default of line 371
DefaultMaxRetries == 10

\* the configured count used as it is
EffectiveMaxRetriesAsGiven(n) == n

\* lines 369-372
EffectiveMaxRetries(n) == IF n <= 0 THEN DefaultMaxRetries ELSE n

\* getUsedPortsSet taking no port of the snapshot as used
getUsedPortsSetEmpty(snapshot) == {}

\* getUsedPortsSet, lines 511-521
getUsedPortsSet(snapshot) ==
    {Sscanf(snapshot[p]).n :
        p \in {q \in Profiles : /\ snapshot[q] # <<>>
                               /\ Sscanf(snapshot[q]).ok
                               /\ Sscanf(snapshot[q]).n > 0}}

\* lines 441-445: the port the verification snapshot gives the profile
ActualPort(snapshot, id) == IF snapshot[id] # <<>> THEN Sscanf(snapshot[id]).n ELSE 0

\* the ownership test never failing
PortMismatchNever(actual, requested) == FALSE

\* the ownership test failing only for a profile with no port
PortMismatchOnlyIfClosed(actual, requested) == actual = 0

\* the ownership test passing a profile with no port
PortMismatchIgnoresClosed(actual, requested) == actual # 0 /\ actual # requested

\* line 447
PortMismatch(actual, requested) == actual # requested

\* the endpoint handed on as the service wrote it
EnsurePrefixSkipped(res) == res

\* lines 476-479, and the same lines of openNative (569-571) and OpenRaw (709-711)
EnsurePrefix(res) ==
    IF res.port # 0 /\ ~res.scheme THEN [res EXCEPT !.scheme = TRUE] ELSE res

OpenInit ==
    /\ bound = [p \in Profiles |-> 0]
    /\ pc = [c \in Clients |-> "idle"]
    /\ attempt = [c \in Clients |-> 0]
    /\ usedPorts = [c \in Clients |-> {}]
    /\ port = [c \in Clients |-> 0]
    /\ snapErr = [c \in Clients |-> "unset"]
    /\ sentArgs = [c \in Clients |-> <<>>]
    /\ openRes = [c \in Clients |-> NoResult]
    /\ verifyErr = [c \in Clients |-> "unset"]
    /\ actualPort = [c \in Clients |-> 0]
    /\ lastErr = [c \in Clients |-> NoErr]
    /\ ret = [c \in Clients |-> "none"]
    /\ retRes = [c \in Clients |-> NoResult]
    /\ nOpen = [c \in Clients |-> 0]
    /\ nClose = [c \in Clients |-> 0]
    /\ nMismatch = [c \in Clients |-> 0]
    /\ portRetries = [c \in Clients |-> MaxRetries]

\* the Open model at rest, for the specifications that do not run it
OpenIdle == OpenInit

\* Open returns
Return(c, kind, res) ==
    /\ pc' = [pc EXCEPT ![c] = "done"]
    /\ ret' = [ret EXCEPT ![c] = kind]
    /\ retRes' = [retRes EXCEPT ![c] = res]

\* continue skipping the snapshot and the pick: the next attempt sends its open
\* request with the port of the attempt before
ContinueReusingPick(c, err) ==
    /\ lastErr' = [lastErr EXCEPT ![c] = err]
    /\ IF attempt[c] + 1 <= EffectiveMaxRetries(portRetries[c])
         THEN /\ attempt' = [attempt EXCEPT ![c] = attempt[c] + 1]
              /\ pc' = [pc EXCEPT ![c] = "open"]
              /\ openRes' = [openRes EXCEPT ![c] = NoResult]
              /\ verifyErr' = [verifyErr EXCEPT ![c] = "unset"]
              /\ actualPort' = [actualPort EXCEPT ![c] = 0]
              /\ UNCHANGED <<usedPorts, port, snapErr, ret, retRes>>
         ELSE /\ Return(c, "exhausted", NoResult)
              /\ UNCHANGED <<attempt, usedPorts, port, snapErr, openRes, verifyErr,
                             actualPort>>

\* continue: the next attempt with fresh locals, or line 501 after the last
Continue(c, err) ==
    /\ lastErr' = [lastErr EXCEPT ![c] = err]
    /\ IF attempt[c] + 1 <= EffectiveMaxRetries(portRetries[c])
         THEN /\ attempt' = [attempt EXCEPT ![c] = attempt[c] + 1]
              /\ pc' = [pc EXCEPT ![c] = "snapshot"]
              /\ usedPorts' = [usedPorts EXCEPT ![c] = {}]
              /\ port' = [port EXCEPT ![c] = 0]
              /\ snapErr' = [snapErr EXCEPT ![c] = "unset"]
              /\ openRes' = [openRes EXCEPT ![c] = NoResult]
              /\ verifyErr' = [verifyErr EXCEPT ![c] = "unset"]
              /\ actualPort' = [actualPort EXCEPT ![c] = 0]
              /\ UNCHANGED <<ret, retRes>>
         ELSE /\ Return(c, "exhausted", NoResult)
              /\ UNCHANGED <<attempt, usedPorts, port, snapErr, openRes, verifyErr,
                             actualPort>>


\* Open is called: lines 348-356 and 368-375
OpenCall(c) ==
    /\ UNCHANGED <<outsideOpen, portRetries>>
    /\ pc[c] = "idle"
    /\ IsActive
    /\ attempt' = [attempt EXCEPT ![c] = 1]
    /\ pc' = [pc EXCEPT ![c] = "snapshot"]
    /\ UNCHANGED <<bound, usedPorts, port, snapErr, sentArgs, openRes, verifyErr,
                   actualPort, lastErr, ret, retRes, nOpen, nClose, nMismatch>>

\* the ports of the query kept whatever its error
usedPortsKept(ok, used) == used

\* lines 376-386: the ports of the query, or an empty set when it failed
usedPortsOrEmpty(ok, used) == IF ok THEN used ELSE {}

\* the snapshot query and the port pick: lines 376-392
Snapshot(c) ==
    /\ UNCHANGED <<outsideOpen, portRetries>>
    /\ pc[c] = "snapshot"
    /\ \E ok \in BOOLEAN, ports \in ShuffledPorts :
         LET used == usedPortsOrEmpty(ok, getUsedPortsSet(PortsSnapshot(bound)))
             pick == PickPortExcluding(used, ports)
         IN  /\ snapErr' = [snapErr EXCEPT ![c] = IF ok THEN "nil" ELSE "err"]
             /\ usedPorts' = [usedPorts EXCEPT ![c] = used]
             /\ port' = [port EXCEPT ![c] = pick]
             /\ IF pick = 0
                  THEN Return(c, "allocErr", NoResult)
                  ELSE /\ pc' = [pc EXCEPT ![c] = "open"]
                       /\ UNCHANGED <<ret, retRes>>
    /\ sentArgs' = [sentArgs EXCEPT ![c] = <<>>]
    /\ UNCHANGED <<bound, attempt, openRes, verifyErr, actualPort, lastErr, nOpen,
                   nClose, nMismatch>>

\* the managed branch doing what the native one does with an empty result:
\* going on to wait for the browser when the caller set WaitReady
OpenOkThenPolls(c) ==
    /\ UNCHANGED <<classifyVars, retryVars, pickVars, requestVars, modeVars, delayVars,
                   configVars, portRetries>>
    /\ pc[c] = "open"
    /\ \E b \in OpenEffects(bound, c) :
         /\ bound' = b
         /\ openRes' = [openRes EXCEPT ![c] = ServiceResult(b, c, port[c])]
         /\ IF eWaitReady /\ ServiceResult(b, c, port[c]).port = 0
              THEN ePc' = "wait" /\ ePolls' = 1
              ELSE UNCHANGED <<ePc, ePolls>>
    /\ sentArgs' = [sentArgs EXCEPT ![c] = buildManagedArgs(port[c], Opts(c))]
    /\ nOpen' = [nOpen EXCEPT ![c] = nOpen[c] + 1]
    /\ pc' = [pc EXCEPT ![c] = "verify"]
    /\ usedPorts' = [usedPorts EXCEPT ![c] = {}]
    /\ snapErr' = [snapErr EXCEPT ![c] = "unset"]
    /\ UNCHANGED <<attempt, port, verifyErr, actualPort, lastErr, ret, retRes,
                   nClose, nMismatch>>
    /\ UNCHANGED <<eOp, eWaitReady, eTimeout, ePollInterval, eCtx, eCancelAt, eOpens,
                   eAnswer, eQueries, eWaited, eVersion, eRet, eRes, eWs>>

\* the open request succeeds: lines 404-422
OpenOk(c) ==
    /\ UNCHANGED <<outsideOpen, portRetries>>
    /\ pc[c] = "open"
    /\ \E b \in OpenEffects(bound, c) :
         /\ bound' = b
         /\ openRes' = [openRes EXCEPT ![c] = ServiceResult(b, c, port[c])]
    /\ sentArgs' = [sentArgs EXCEPT ![c] = buildManagedArgs(port[c], Opts(c))]
    /\ nOpen' = [nOpen EXCEPT ![c] = nOpen[c] + 1]
    /\ pc' = [pc EXCEPT ![c] = "verify"]
    /\ usedPorts' = [usedPorts EXCEPT ![c] = {}]
    /\ snapErr' = [snapErr EXCEPT ![c] = "unset"]
    /\ UNCHANGED <<attempt, port, verifyErr, actualPort, lastErr, ret, retRes,
                   nClose, nMismatch>>

\* the open request fails: lines 421 and 483-499.  A request that failed on the
\* way back may have been processed.
OpenFail(c) ==
    /\ UNCHANGED <<outsideOpen, portRetries>>
    /\ pc[c] = "open"
    /\ \E err \in OpenErrors :
         /\ bound' \in IF ErrorsIs(err.chain, "ErrNetwork")
                         THEN OpenEffects(bound, c) ELSE {bound}
         /\ IF isPortConflictError(err)
              THEN Continue(c, err)
              ELSE /\ Return(c, "openErr", NoResult)
                   /\ lastErr' = [lastErr EXCEPT ![c] = err]
                   /\ usedPorts' = [usedPorts EXCEPT ![c] = {}]
                   /\ snapErr' = [snapErr EXCEPT ![c] = "unset"]
                   /\ UNCHANGED <<attempt, port, openRes, verifyErr, actualPort>>
    /\ sentArgs' = [sentArgs EXCEPT ![c] = buildManagedArgs(port[c], Opts(c))]
    /\ nOpen' = [nOpen EXCEPT ![c] = nOpen[c] + 1]
    /\ UNCHANGED <<nClose, nMismatch>>

\* the verification query fails and the attempt goes on to return its result
\* ("Continue anyway"): lines 432-440 and 476-480
VerifyFail(c) ==
    /\ UNCHANGED <<outsideOpen, portRetries>>
    /\ pc[c] = "verify"
    /\ verifyErr' = [verifyErr EXCEPT ![c] = "err"]
    /\ Return(c, "success", EnsurePrefix(openRes[c]))
    /\ UNCHANGED <<attempt, usedPorts, port, snapErr, openRes, actualPort, lastErr>>
    /\ UNCHANGED <<bound, sentArgs, nOpen, nClose, nMismatch>>

\* the verification query answers: lines 432 and 440-480
Verify(c) ==
    /\ UNCHANGED <<outsideOpen, portRetries>>
    /\ pc[c] = "verify"
    /\ LET actual == ActualPort(PortsSnapshot(bound), c) IN
         /\ verifyErr' = [verifyErr EXCEPT ![c] = "nil"]
         /\ actualPort' = [actualPort EXCEPT ![c] = actual]
         /\ IF PortMismatch(actual, port[c])
              THEN /\ pc' = [pc EXCEPT ![c] = "close"]
                   /\ nMismatch' = [nMismatch EXCEPT ![c] = nMismatch[c] + 1]
                   /\ UNCHANGED <<ret, retRes>>
              ELSE /\ Return(c, "success", EnsurePrefix(openRes[c]))
                   /\ UNCHANGED nMismatch
    /\ UNCHANGED <<bound, attempt, usedPorts, port, snapErr, sentArgs, openRes, lastErr,
                   nOpen, nClose>>

\* the close after a mismatch ending Open when it fails
CloseAbortsOnFailure(c) ==
    /\ UNCHANGED <<outsideOpen, portRetries>>
    /\ pc[c] = "close"
    /\ \E ok \in BOOLEAN :
         /\ bound' \in CloseEffects(bound, c, ok)
         /\ IF ok THEN Continue(c, MismatchErr)
            ELSE /\ Return(c, "closeErr", NoResult)
                 /\ UNCHANGED <<attempt, usedPorts, port, snapErr, openRes, verifyErr,
                                actualPort, lastErr>>
    /\ nClose' = [nClose EXCEPT ![c] = nClose[c] + 1]
    /\ sentArgs' = [sentArgs EXCEPT ![c] = <<>>]
    /\ UNCHANGED <<nOpen, nMismatch>>

\* the close after a mismatch, whose failure is only logged: lines 463-472
CloseAfterMismatch(c) ==
    /\ UNCHANGED <<outsideOpen, portRetries>>
    /\ pc[c] = "close"
    /\ \E ok \in BOOLEAN : bound' \in CloseEffects(bound, c, ok)
    /\ nClose' = [nClose EXCEPT ![c] = nClose[c] + 1]
    /\ Continue(c, MismatchErr)
    /\ sentArgs' = [sentArgs EXCEPT ![c] = <<>>]
    /\ UNCHANGED <<nOpen, nMismatch>>

OpenNext ==
    \E c \in Clients :
        \/ OpenCall(c)
        \/ Snapshot(c)
        \/ OpenOk(c)
        \/ OpenFail(c)
        \/ VerifyFail(c)
        \/ Verify(c)
        \/ CloseAfterMismatch(c)

(***************************************************************************)
(* SpecEndpoint: one caller makes one call for profile "p1": Open through  *)
(* a client built with the port range (the managed branch above), Open     *)
(* through a client built without it (openNative), OpenRaw or WaitForReady.*)
(* Profile "p2" belongs to somebody else and may be open.                  *)
(***************************************************************************)
Caller == "p1"

\* the defaults of lines 719-727 and 770-772
DefaultWaitTimeout == 30
DefaultPollInterval == 2

\* the WaitTimeout / timeoutSeconds values a caller passes (0: not set)
WaitTimeouts == {0, 1, MaxWait}

\* the PollInterval values a caller passes (0: not set)
PollIntervals == {0, 1, MaxWait}

\* lines 718-721, and 770-772 of WaitForReady
EffectiveTimeout(timeout) == IF timeout <= 0 THEN DefaultWaitTimeout ELSE timeout

\* lines 723-726
EffectivePollInterval(pollIntervalSec) ==
    IF pollIntervalSec <= 0 THEN DefaultPollInterval ELSE pollIntervalSec

\* the number of polls without the floor of one
WaitAttemptsNoFloor(timeout, pollIntervalSec) ==
    EffectiveTimeout(timeout) \div EffectivePollInterval(pollIntervalSec)

\* line 729: maxAttempts
WaitAttempts(timeout, pollIntervalSec) ==
    LET q == EffectiveTimeout(timeout) \div EffectivePollInterval(pollIntervalSec)
    IN  IF q > 1 THEN q ELSE 1

\* the data of a successful /browser/open answer: the endpoint of the profile's
\* browser, written with or without the scheme, or nothing
NativeResults(b, id) ==
    IF b[id] = 0 THEN {NoResult}
    ELSE {[port |-> b[id], scheme |-> sch] : sch \in BOOLEAN}

\* what doRequest and the envelope give to a /browser/open caller
OpenAnswers == {"requestErr", "opening", "refused", "badData", "ok"}

\* line 745: the endpoint waitForBrowserReady builds from the port string
ReadyResult(portStr) == [port |-> Sscanf(portStr).n, scheme |-> TRUE]

NotCancelled == [pc |-> "never", queries |-> 0, left |-> 0]

NoAnswer == [ans |-> "none", empty |-> FALSE]

\* the options are those the caller passes: any for the native branch, none or
\* all three for the managed branch; WaitForReady builds its own (774-777)
EndpointInit ==
    /\ eOp \in {"OpenManaged", "OpenNative", "OpenRaw", "WaitForReady"}
    /\ ePc = IF eOp = "OpenManaged" THEN "done" ELSE "idle"
    /\ eWaitReady \in (IF eOp \in {"OpenNative", "OpenManaged"} THEN BOOLEAN
                       ELSE {eOp = "WaitForReady"})
    /\ eTimeout \in (IF eOp \in {"OpenNative", "WaitForReady"} THEN WaitTimeouts
                     ELSE IF eOp = "OpenManaged" /\ eWaitReady THEN {MaxWait} ELSE {0})
    /\ ePollInterval \in (IF eOp = "OpenNative" THEN PollIntervals
                          ELSE IF eOp = "OpenManaged" /\ eWaitReady THEN {1} ELSE {0})
    /\ ePolls = 0
    /\ eCtx = "live"
    /\ eCancelAt = NotCancelled
    /\ eOpens = 0
    /\ eAnswer = NoAnswer
    /\ eQueries = 0
    /\ eWaited = 0
    /\ eVersion = "none"
    /\ eRet = "none"
    /\ eRes = NoResult
    /\ eWs = FALSE

\* the native calls at rest, for the specifications that do not run them
EndpointIdle ==
    /\ eOp = "OpenManaged"
    /\ ePc = "done"
    /\ eWaitReady = FALSE
    /\ eTimeout = 0
    /\ ePollInterval = 0
    /\ ePolls = 0
    /\ eCtx = "live"
    /\ eCancelAt = NotCancelled
    /\ eOpens = 0
    /\ eAnswer = NoAnswer
    /\ eQueries = 0
    /\ eWaited = 0
    /\ eVersion = "none"
    /\ eRet = "none"
    /\ eRes = NoResult
    /\ eWs = FALSE

\* the MaxRetries the caller's client is built with: negative, not set, set
PortRetriesGiven == {-1, 0, MaxRetries}

\* the Open model when the call is not a managed Open, or is: the other
\* profile's browser may be up.  The MaxRetries of the caller's client varies
\* for the calls made without WaitReady.
OpenInitFor(op) ==
    /\ bound \in {b \in [Profiles -> {0} \cup ServicePorts] : b[Caller] = 0}
    /\ pc = [c \in Clients |-> IF c = Caller /\ op = "OpenManaged" THEN "idle" ELSE "done"]
    /\ attempt = [c \in Clients |-> 0]
    /\ usedPorts = [c \in Clients |-> {}]
    /\ port = [c \in Clients |-> 0]
    /\ snapErr = [c \in Clients |-> "unset"]
    /\ sentArgs = [c \in Clients |-> <<>>]
    /\ openRes = [c \in Clients |-> NoResult]
    /\ verifyErr = [c \in Clients |-> "unset"]
    /\ actualPort = [c \in Clients |-> 0]
    /\ lastErr = [c \in Clients |-> NoErr]
    /\ ret = [c \in Clients |-> "none"]
    /\ retRes = [c \in Clients |-> NoResult]
    /\ nOpen = [c \in Clients |-> 0]
    /\ nClose = [c \in Clients |-> 0]
    /\ nMismatch = [c \in Clients |-> 0]
    /\ portRetries \in {r \in [Clients -> PortRetriesGiven] :
                          /\ \A c \in Clients \ {Caller} : r[c] = MaxRetries
                          /\ eWaitReady => r[Caller] = MaxRetries}

EndpointReturn(kind, res) ==
    /\ ePc' = "done"
    /\ eRet' = kind
    /\ eRes' = res

\* what the wait loop writes, left alone by the steps outside it
waitLocals == <<ePolls, eQueries, eWaited, eVersion, eWs>>

\* waitForBrowserReady is entered: lines 718-731
EnterWait ==
    /\ ePc' = "wait"
    /\ ePolls' = WaitAttempts(eTimeout, ePollInterval)
    /\ UNCHANGED <<eRet, eRes, eQueries, eWaited, eVersion, eWs>>

\* the still-starting test applied whatever the options
StillStartingAnyOptions(waitReady, ans) == ans = "opening"

\* line 553: the answer says the browser is starting, and the caller waits
StillStarting(waitReady, ans) == waitReady /\ ans = "opening"

\* Open's native branch: lines 348-360 and 526-579
OpenNative ==
    /\ UNCHANGED outsideEndpoint
    /\ eOp = "OpenNative" /\ ePc = "idle"
    /\ eOpens' = eOpens + 1
    /\ \E ans \in OpenAnswers, b \in OpenEffects(bound, Caller) :
         /\ bound' = b
         /\ CASE ans = "requestErr" ->
                    /\ EndpointReturn("requestErr", NoResult)
                    /\ eAnswer' = [ans |-> ans, empty |-> FALSE]
                    /\ UNCHANGED waitLocals
              [] ans \in {"opening", "refused"} ->
                    /\ eAnswer' = [ans |-> ans, empty |-> FALSE]
                    /\ IF StillStarting(eWaitReady, ans) THEN EnterWait
                       ELSE EndpointReturn("apiErr", NoResult) /\ UNCHANGED waitLocals
              [] ans = "badData" ->
                    /\ EndpointReturn("parseErr", NoResult)
                    /\ eAnswer' = [ans |-> ans, empty |-> FALSE]
                    /\ UNCHANGED waitLocals
              [] ans = "ok" ->
                    \E r \in NativeResults(b, Caller) :
                        LET result == EnsurePrefix(r) IN
                        /\ eAnswer' = [ans |-> ans, empty |-> r.port = 0]
                        /\ IF result.port = 0 /\ eWaitReady THEN EnterWait
                           ELSE EndpointReturn("success", result) /\ UNCHANGED waitLocals
    /\ UNCHANGED <<eOp, eWaitReady, eTimeout, ePollInterval, eCtx, eCancelAt>>

\* OpenRaw: lines 694-714
OpenRaw ==
    /\ UNCHANGED outsideEndpoint
    /\ eOp = "OpenRaw" /\ ePc = "idle"
    /\ eOpens' = eOpens + 1
    /\ \E ans \in OpenAnswers, b \in OpenEffects(bound, Caller) :
         /\ bound' = b
         /\ CASE ans = "requestErr" ->
                    /\ EndpointReturn("requestErr", NoResult)
                    /\ eAnswer' = [ans |-> ans, empty |-> FALSE]
              [] ans \in {"opening", "refused"} ->
                    /\ EndpointReturn("apiErr", NoResult)
                    /\ eAnswer' = [ans |-> ans, empty |-> FALSE]
              [] ans = "badData" ->
                    /\ EndpointReturn("parseErr", NoResult)
                    /\ eAnswer' = [ans |-> ans, empty |-> FALSE]
              [] ans = "ok" ->
                    \E r \in NativeResults(b, Caller) :
                        /\ EndpointReturn("success", EnsurePrefix(r))
                        /\ eAnswer' = [ans |-> ans, empty |-> r.port = 0]
    /\ UNCHANGED <<eOp, eWaitReady, eTimeout, ePollInterval, eCtx, eCancelAt>>
    /\ UNCHANGED waitLocals

\* WaitForReady: lines 769-780 and 718-731
WaitForReady ==
    /\ UNCHANGED outsideEndpoint
    /\ eOp = "WaitForReady" /\ ePc = "idle"
    /\ EnterWait
    /\ UNCHANGED <<bound, eOp, eWaitReady, eTimeout, ePollInterval, eCtx, eCancelAt, eOpens,
                   eAnswer>>

\* the select never taking the ctx.Done() case
CtxDoneNever(ctx) == FALSE

\* lines 732-733: the ctx.Done() case of the select is taken
CtxDone(ctx) == ctx # "live"

\* the top of an iteration of waitForBrowserReady's loop, lines 731-739: the
\* select returns the context's error, or sleeps the poll interval, after which
\* the iteration calls GetPorts
WaitSelect ==
    /\ UNCHANGED outsideEndpoint
    /\ ePc = "wait" /\ ePolls > 0
    /\ IF CtxDone(eCtx)
         THEN /\ EndpointReturn("ctxErr", NoResult)
              /\ UNCHANGED <<ePolls, eQueries, eWaited>>
         ELSE /\ ePolls' = ePolls - 1
              /\ eWaited' = eWaited + EffectivePollInterval(ePollInterval)
              /\ eQueries' = eQueries + 1
              /\ ePc' = "query"
              /\ UNCHANGED <<eRet, eRes>>
    /\ UNCHANGED <<bound, eOp, eWaitReady, eTimeout, ePollInterval, eCtx, eCancelAt, eOpens,
                   eAnswer, eVersion, eWs>>

\* GetPorts returns, lines 739-746: with a port for the profile the iteration
\* builds the endpoint and asks it for its version; without one, or with an
\* error, the loop goes round.  The browser may have come up since the last
\* look.  A context cancelled while the request was in flight fails it, unless
\* the answer had been read already.
WaitQuery ==
    /\ UNCHANGED outsideEndpoint
    /\ ePc = "query"
    /\ \E b \in OpenEffects(bound, Caller), ok \in BOOLEAN :
         /\ bound' = b
         /\ IF ok /\ PortsSnapshot(b)[Caller] # <<>>
              THEN /\ eRes' = ReadyResult(PortsSnapshot(b)[Caller])
                   /\ ePc' = "version"
              ELSE /\ ePc' = "wait"
                   /\ UNCHANGED eRes
    /\ UNCHANGED <<eOp, eWaitReady, eTimeout, ePollInterval, ePolls, eCtx, eCancelAt, eOpens,
                   eAnswer, eQueries, eWaited, eVersion, eRet, eWs>>

\* the complete result given whenever the version fetch succeeds
HasWsIfFetched(v) == v # "err"

\* line 750: verr == nil && version.WebSocketDebuggerURL != ""
HasWs(v) == v = "ws"

\* GetBrowserVersion returns, lines 749-760.  Called under a context that is
\* cancelled already it fails.
WaitVersion ==
    /\ UNCHANGED outsideEndpoint
    /\ ePc = "version"
    /\ \E v \in {"err", "noWs", "ws"} :
         /\ (eCtx # "live" /\ eCancelAt.pc # "version") => v = "err"
         /\ eVersion' = v
         /\ eWs' = HasWs(v)
    /\ EndpointReturn("success", eRes)
    /\ UNCHANGED <<bound, eOp, eWaitReady, eTimeout, ePollInterval, ePolls, eCtx, eCancelAt,
                   eOpens, eAnswer, eQueries, eWaited>>

\* the loop has run out: line 764
WaitTimedOut ==
    /\ UNCHANGED outsideEndpoint
    /\ ePc = "wait" /\ ePolls = 0
    /\ EndpointReturn("timeout", NoResult)
    /\ UNCHANGED <<bound, eOp, eWaitReady, eTimeout, ePollInterval, ePolls, eCtx, eCancelAt,
                   eOpens, eAnswer, eQueries, eWaited, eVersion, eWs>>

\* the caller cancels the context while the call is in waitForBrowserReady
WaitCancel ==
    /\ UNCHANGED outsideEndpoint
    /\ ePc \in {"wait", "query", "version"} /\ eCtx = "live"
    /\ eCtx' = "canceled"
    /\ eCancelAt' = [pc |-> ePc, queries |-> eQueries, left |-> ePolls]
    /\ UNCHANGED <<bound, eOp, ePc, eWaitReady, eTimeout, ePollInterval, ePolls, eOpens,
                   eAnswer, eQueries, eWaited, eVersion, eRet, eRes, eWs>>

EndpointNext ==
    \/ OpenNative
    \/ OpenRaw
    \/ WaitForReady
    \/ WaitSelect
    \/ WaitQuery
    \/ WaitVersion
    \/ WaitTimedOut
    \/ WaitCancel
    \/ OpenCall(Caller)
    \/ Snapshot(Caller)
    \/ OpenOk(Caller)
    \/ OpenFail(Caller)
    \/ VerifyFail(Caller)
    \/ Verify(Caller)
    \/ CloseAfterMismatch(Caller)

(***************************************************************************)
(* SpecRequest: one doOpenRequest of a client built with WithRetry(n):     *)
(* doRequest runs retryer.do with executeRequest as fn, and the caller     *)
(* reads the envelope of a request that went through.                      *)
(***************************************************************************)
\* the HTTP statuses the service answers with
HttpStatuses == {200, 201, 400, 404, 429, 500}

\* response bodies: an envelope with success=true, an envelope with
\* success=false and a message, a body that is not JSON, an error page
JsonBodies == {"success=true", "success=false"}

Bodies(status) ==
    IF status \in {200, 201} THEN JsonBodies \cup {"not json"} ELSE {"error text"}

Outcome(kind, cause, reached, status, body) ==
    [kind |-> kind, cause |-> cause, reached |-> reached, status |-> status,
     body |-> body]

\* what a round trip can come to while the context is live: httpClient.Do fails
\* (the service unreachable, or the client's own timeout), reading the body
\* fails, or a response arrives
LiveOutcomes ==
    {Outcome("doErr", "other", FALSE, 0, ""), Outcome("doErr", "deadline", TRUE, 0, ""),
     Outcome("readErr", "other", TRUE, 0, "")}
        \cup {Outcome("response", "none", TRUE, st, b) :
                st \in HttpStatuses, b \in JsonBodies \cup {"not json", "error text"}}

\* what a round trip comes to when the context is cancelled or expires while
\* the call is in flight: Do, or the read of the body, fails with ctx.Err()
InFlightOutcomes(ctx) ==
    {Outcome("doErr", ctx, r, 0, "") : r \in BOOLEAN}
        \cup {Outcome("readErr", ctx, TRUE, 0, "")}

Outcomes(ctx) ==
    IF ctx = "live"
      THEN {o \in LiveOutcomes : o.kind = "response" => o.body \in Bodies(o.status)}
      ELSE InFlightOutcomes(IF ctx = "deadline" THEN "deadline" ELSE "canceled")

\* the error a failed round trip or read carries
CauseErr(cause) ==
    CASE cause = "deadline" -> ctxDeadlineExceeded
      [] cause = "canceled" -> ctxCanceled
      [] OTHER -> PlainError

ExecResult(err, msg, envelope) == [err |-> err, msg |-> msg, envelope |-> envelope]

\* executeRequest with the context.Canceled branch missing
executeRequestNoCancelBranch(o) ==
    IF o.kind = "doErr" THEN
        IF o.cause = "deadline"
          THEN ExecResult(NewTimeoutError(Errorf(ctxDeadlineExceeded)), "", "none")
          ELSE ExecResult(NewNetworkError(Errorf(CauseErr(o.cause))), "", "none")
    ELSE IF o.kind = "readErr"
      THEN ExecResult(NewNetworkError(CauseErr(o.cause)), "", "none")
    ELSE IF o.status # 200 THEN ExecResult(NewAPIError(o.status), o.body, "none")
    ELSE IF o.body \notin JsonBodies
      THEN ExecResult(NewAPIError(o.status), "failed to unmarshal response", "none")
    ELSE ExecResult(Nil, "", o.body)

\* executeRequest reporting an envelope with success=false as a failed request
executeRequestReadsEnvelope(o) ==
    IF o.kind = "doErr" THEN
        IF ErrorsIs(Errorf(CauseErr(o.cause)), "DeadlineExceeded")
          THEN ExecResult(NewTimeoutError(Errorf(CauseErr(o.cause))), "", "none")
        ELSE IF ErrorsIs(Errorf(CauseErr(o.cause)), "Canceled")
          THEN ExecResult(Errorf(CauseErr(o.cause)), "", "none")
        ELSE ExecResult(NewNetworkError(Errorf(CauseErr(o.cause))), "", "none")
    ELSE IF o.kind = "readErr"
      THEN ExecResult(NewNetworkError(CauseErr(o.cause)), "", "none")
    ELSE IF o.status # 200 THEN ExecResult(NewAPIError(o.status), o.body, "none")
    ELSE IF o.body \notin JsonBodies
      THEN ExecResult(NewAPIError(o.status), "failed to unmarshal response", "none")
    ELSE IF o.body = "success=false"
      THEN ExecResult(NewNetworkError(PlainError), "", o.body)
    ELSE ExecResult(Nil, "", o.body)

\* executeRequest: lines 1402-1443.  httpClient.Do hands back a *url.Error
\* around the cause.
executeRequest(o) ==
    IF o.kind = "doErr" THEN
        IF ErrorsIs(Errorf(CauseErr(o.cause)), "DeadlineExceeded")
          THEN ExecResult(NewTimeoutError(Errorf(CauseErr(o.cause))), "", "none")
        ELSE IF ErrorsIs(Errorf(CauseErr(o.cause)), "Canceled")
          THEN ExecResult(Errorf(CauseErr(o.cause)), "", "none")
        ELSE ExecResult(NewNetworkError(Errorf(CauseErr(o.cause))), "", "none")
    ELSE IF o.kind = "readErr"
      THEN ExecResult(NewNetworkError(CauseErr(o.cause)), "", "none")
    ELSE IF o.status # 200 THEN ExecResult(NewAPIError(o.status), o.body, "none")
    ELSE IF o.body \notin JsonBodies
      THEN ExecResult(NewAPIError(o.status), "failed to unmarshal response", "none")
    ELSE ExecResult(Nil, "", o.body)

\* doOpenRequest after doRequest: lines 660-672
EnvelopeErr(doErr, envelope) ==
    IF doErr # Nil THEN doErr
    ELSE IF envelope # "success=true" THEN PlainError
    ELSE Nil

\* a client built with WithRetry(n): DefaultRetryConfig with MaxAttempts = n
RequestInit ==
    /\ rPc = "start"
    /\ rGivenMax \in 0..MaxPolicyAttempts
    /\ rMaxAttempts = rGivenMax
    /\ rRetryIf = "nil"
    /\ rAttempt = 0
    /\ rLastErr = Nil
    /\ rErrs = <<>>
    /\ rCtx = "live"
    /\ rEntryCtx = "unset"
    /\ rCancelAt = [pc |-> "never", calls |-> 0]
    /\ rResult = Nil
    /\ hOut = <<>>
    /\ hExec = <<>>
    /\ hRequests = 0
    /\ hErr = Nil
    /\ hDone = FALSE

\* no request under way, for the specifications that do not run one
RequestIdle ==
    /\ hOut = <<>>
    /\ hExec = <<>>
    /\ hRequests = 0
    /\ hErr = Nil
    /\ hDone = TRUE

\* the closure of lines 1383-1390: one executeRequest
RequestCall ==
    /\ UNCHANGED outsideRequest
    /\ \E o \in Outcomes(rCtx) :
         LET res == executeRequest(o) IN
         /\ hOut' = Append(hOut, o)
         /\ hExec' = Append(hExec, res)
         /\ hRequests' = IF o.reached THEN hRequests + 1 ELSE hRequests
         /\ RetryCallWith(res.err)
    /\ UNCHANGED <<hErr, hDone>>

\* doRequest has returned and doOpenRequest looks at the envelope
Envelope ==
    /\ UNCHANGED outsideRequest
    /\ rPc = "done" /\ ~hDone
    /\ hErr' = EnvelopeErr(rResult, IF hExec = <<>> THEN "none"
                                    ELSE hExec[Len(hExec)].envelope)
    /\ hDone' = TRUE
    /\ UNCHANGED <<retryVars, hOut, hExec, hRequests>>

RequestNext ==
    \/ RetryBegin
    \/ RetryCheck
    \/ RequestCall
    \/ RetrySleepTimer
    \/ RetrySleepCancelled
    \/ RetryCancel
    \/ Envelope

(***************************************************************************)
(* SpecMode: a client is built by New with or without WithPortRange, and   *)
(* Open is called through it.                                              *)
(***************************************************************************)
\* the ends WithPortRange is given; DefaultPortConfig has both at 0
ConfigPorts == {-1, 0, MinPort, MaxPort}

ModeInit ==
    /\ mMin \in ConfigPorts
    /\ mMax \in ConfigPorts
    /\ mHost \in {"ok", "bad"}
    /\ mBuilt = "no"
    /\ mManager = FALSE
    /\ mBranch = "none"
    /\ mOpens = 0

\* no client is under construction, for the specifications that build none
ModeIdle ==
    /\ mMin = 0
    /\ mMax = 0
    /\ mHost = "ok"
    /\ mBuilt = "no"
    /\ mManager = FALSE
    /\ mBranch = "none"
    /\ mOpens = 0

\* NewPortManager: nil for a configuration that is not managed, an error
\* without a host
NewPortManager(minPort, maxPort, host) ==
    IF ~IsManaged(minPort, maxPort) THEN [pm |-> FALSE, err |-> FALSE]
    ELSE IF host = "bad" THEN [pm |-> FALSE, err |-> TRUE]
    ELSE [pm |-> TRUE, err |-> FALSE]

\* New, after the options: client.go 120-133
New ==
    /\ UNCHANGED outsideMode
    /\ mBuilt = "no"
    /\ IF IsManaged(mMin, mMax)
         THEN IF mHost = "bad"
                THEN mBuilt' = "error" /\ UNCHANGED mManager
                ELSE LET r == NewPortManager(mMin, mMax, mHost) IN
                     IF r.err THEN mBuilt' = "error" /\ UNCHANGED mManager
                     ELSE mBuilt' = "yes" /\ mManager' = r.pm
         ELSE mBuilt' = "yes" /\ UNCHANGED mManager
    /\ UNCHANGED <<mMin, mMax, mHost, mBranch, mOpens>>

\* PortManager.IsActive
PortManagerIsActive(pm, minPort, maxPort) == pm /\ IsManaged(minPort, maxPort)

\* Open picks its branch: client.go 353-359
OpenDispatch ==
    /\ UNCHANGED outsideMode
    /\ mBuilt = "yes" /\ mOpens < MaxOpens
    /\ mBranch' = IF mManager /\ PortManagerIsActive(mManager, mMin, mMax)
                    THEN "managed" ELSE "native"
    /\ mOpens' = mOpens + 1
    /\ UNCHANGED <<mMin, mMax, mHost, mBuilt, mManager>>

ModeNext == New \/ OpenDispatch

(***************************************************************************)
(* SpecDelay: the delays calculateDelay gives for the successive attempts  *)
(* of one run of retryer.do.  Durations are whole ticks; Multiplier and    *)
(* Jitter are counted in halves and rand.Float64() in quarters, and a      *)
(* float64 is the fraction n / d.                                          *)
(***************************************************************************)
BaseDelays == {1, 3}
MaxDelays == {0, 2, 8}
\* Multiplier 0.5, 1, 1.5, 2
Multipliers == {1, 2, 3, 4}
\* Jitter 0, 0.5, 1
Jitters == {0, 1, 2}
\* rand.Float64(): 0, 0.25, 0.5, 0.75
Rands == 0..3

RECURSIVE Pow(_, _)
Pow(b, k) == IF k = 0 THEN 1 ELSE b * Pow(b, k - 1)

\* the exponent taken as the attempt
BackoffExponentIsAttempt(n) == n

\* lines 123-125 and 128: attempt - 1, with an attempt <= 0 read as 1
BackoffExponent(n) == IF n <= 0 THEN 0 ELSE n - 1

\* line 128: BaseDelay * Multiplier^(attempt-1)
Backoff(base, mult, n) ==
    [n |-> base * Pow(mult, BackoffExponent(n)), d |-> Pow(2, BackoffExponent(n))]

\* lines 131-133: the cap, applied only if MaxDelay is set
Cap(delay, maxDelay) ==
    IF maxDelay > 0 /\ delay.n > maxDelay * delay.d THEN [n |-> maxDelay, d |-> 1]
    ELSE delay

\* lines 136-139: delay - jitterRange + rand * 2 * jitterRange
ApplyJitter(delay, jitter, rnd) ==
    IF jitter > 0
      THEN [n |-> delay.n * (4 - 2 * jitter + rnd * jitter), d |-> delay.d * 4]
      ELSE delay

\* line 141: time.Duration(delay) drops the fraction
Duration(delay) == delay.n \div delay.d

\* calculateDelay: lines 122-142
calculateDelay(base, maxDelay, mult, jitter, n, rnd) ==
    Duration(ApplyJitter(Cap(Backoff(base, mult, n), maxDelay), jitter, rnd))

DelayInit ==
    /\ dBase \in BaseDelays
    /\ dMax \in MaxDelays
    /\ dMult \in Multipliers
    /\ dJitter \in Jitters
    /\ dAttempt = 1
    /\ dDelays = <<>>

\* no delay is being computed, for the specifications that compute none
DelayIdle ==
    /\ dBase = 1
    /\ dMax = 0
    /\ dMult = 2
    /\ dJitter = 0
    /\ dAttempt = 1
    /\ dDelays = <<>>

\* retry.go 101-110: the delay before the next attempt is computed and slept
DelaySleep ==
    /\ UNCHANGED outsideDelay
    /\ dAttempt <= MaxDelayAttempts
    /\ \E rnd \in Rands :
         dDelays' = Append(dDelays,
                           calculateDelay(dBase, dMax, dMult, dJitter, dAttempt, rnd))
    /\ dAttempt' = dAttempt + 1
    /\ UNCHANGED <<dBase, dMax, dMult, dJitter>>

DelayNext == DelaySleep

(***************************************************************************)
(* SpecConfig: Open is called with a profile ID and options, builds the    *)
(* OpenConfig of its branch and sends it as the JSON body of               *)
(* /browser/open.  The Args field is the subject of buildManagedArgs and   *)
(* buildNativeArgs above and is left out here.                             *)
(***************************************************************************)
\* the StartURL values a caller passes ("": not set)
StartURLs == {"", "about:blank", "https://example.com"}

\* the OpenOptions a caller passes, as far as the request's fields read them
OpenOptionsGiven ==
    [isNil : {FALSE}, Headless : BOOLEAN, IgnoreDefaultUrls : BOOLEAN,
     StartURL : StartURLs]

\* &OpenOptions{}
ZeroOptions ==
    [isNil |-> FALSE, Headless |-> FALSE, IgnoreDefaultUrls |-> FALSE, StartURL |-> ""]

\* a nil *OpenOptions
NilOptions == [ZeroOptions EXCEPT !.isNil = TRUE]

\* Open, lines 349-351
OptsOrDefault(o) == IF o.isNil THEN ZeroOptions ELSE o

\* the caller's StartURL sent whatever the mode
NewPageUrlAsGiven(o) == o.StartURL

\* lines 409-412 and 539-542: startURL
NewPageUrlOf(o) == IF o.Headless THEN "" ELSE o.StartURL

\* lines 417 and 547
IgnoreDefaultUrlsOf(o) == o.IgnoreDefaultUrls \/ o.Headless

\* openWithManagedPort, lines 413-419
ManagedOpenConfig(id, o) ==
    [ID |-> id, Queue |-> TRUE, IgnoreDefaultUrls |-> IgnoreDefaultUrlsOf(o),
     NewPageUrl |-> NewPageUrlOf(o)]

\* openNative, lines 543-549
NativeOpenConfig(id, o) ==
    [ID |-> id, Queue |-> TRUE, IgnoreDefaultUrls |-> IgnoreDefaultUrlsOf(o),
     NewPageUrl |-> NewPageUrlOf(o)]

NoConfig == [ID |-> "", Queue |-> FALSE, IgnoreDefaultUrls |-> FALSE, NewPageUrl |-> ""]

\* json.Marshal of an OpenConfig: the fields tagged omitempty are left out when
\* they hold their zero value
Marshal(cfg) ==
    [id |-> cfg.ID,
     queue |-> IF cfg.Queue THEN "true" ELSE "absent",
     ignoreDefaultUrls |-> IF cfg.IgnoreDefaultUrls THEN "true" ELSE "absent",
     newPageUrl |-> IF cfg.NewPageUrl = "" THEN "absent" ELSE cfg.NewPageUrl]

NoBody == Marshal(NoConfig)

ConfigInit ==
    /\ oId \in Profiles
    /\ oOpts \in OpenOptionsGiven \cup {NilOptions}
    /\ oBranch \in {"managed", "native"}
    /\ oPc = "idle"
    /\ oConfig = NoConfig
    /\ oBody = NoBody

\* no Open under way, for the specifications that do not look at its request
ConfigIdle ==
    /\ oId = "p1"
    /\ oOpts = NilOptions
    /\ oBranch = "native"
    /\ oPc = "sent"
    /\ oConfig = NoConfig
    /\ oBody = NoBody

\* Open and its branch up to the OpenConfig literal
BuildConfig ==
    /\ UNCHANGED outsideConfig
    /\ oPc = "idle"
    /\ oConfig' = IF oBranch = "managed"
                    THEN ManagedOpenConfig(oId, OptsOrDefault(oOpts))
                    ELSE NativeOpenConfig(oId, OptsOrDefault(oOpts))
    /\ oPc' = "built"
    /\ UNCHANGED <<oId, oOpts, oBranch, oBody>>

\* doRequest marshals the config into the request body
SendConfig ==
    /\ UNCHANGED outsideConfig
    /\ oPc = "built"
    /\ oBody' = Marshal(oConfig)
    /\ oPc' = "sent"
    /\ UNCHANGED <<oId, oOpts, oBranch, oConfig>>

ConfigNext == BuildConfig \/ SendConfig

(***************************************************************************)
(* Claims about Open in Managed Mode, checked under Spec.                  *)
(***************************************************************************)
\* the attempt's verification snapshot gave the profile the requested port
Verified(c) == verifyErr[c] = "nil" /\ actualPort[c] = port[c]

\* C1 as stated: Open returns success only if the verification snapshot of
\* that attempt was obtained and mapped the profile to the requested port.
C1_SuccessOnlyIfVerified ==
    \A c \in Clients : ret[c] = "success" => Verified(c)

\* C1, amended: Open returns success only if the verification snapshot of that
\* attempt mapped the profile to the requested port, or the verification query
\* of that attempt failed (lines 433-439 let the attempt succeed unverified).
C1_SuccessOnlyIfVerifiedOrQueryFailed ==
    \A c \in Clients :
        ret[c] = "success" =>
            /\ nOpen[c] = attempt[c]
            /\ port[c] \in MinPort..MaxPort
            /\ Verified(c) \/ verifyErr[c] = "err"

C1_Witness ==
    \E c \in Clients : ret[c] = "success" /\ Verified(c) /\ attempt[c] = 2

\* C2: a verification snapshot that gives the profile another port, or none,
\* leads to a close request for the profile and then to the next attempt with
\* a port still to be picked (after the last attempt: to the terminal error);
\* the mismatched attempt's OpenResult is not returned.
C2_MismatchClosesAndRetries ==
    [][\A c \in Clients :
         /\ (pc[c] = "verify" /\ verifyErr'[c] = "nil" /\ actualPort'[c] # port[c])
                => (pc'[c] = "close" /\ ret'[c] = "none" /\ retRes'[c] = NoResult)
         /\ (pc[c] = "close" /\ pc'[c] # "close")
                => /\ nClose'[c] = nClose[c] + 1
                   /\ lastErr'[c] = MismatchErr
                   /\ ret'[c] # "success"
                   /\ retRes'[c] = NoResult
                   /\ IF attempt[c] < EffectiveMaxRetries(portRetries[c])
                        THEN /\ pc'[c] = "snapshot"
                             /\ attempt'[c] = attempt[c] + 1
                             /\ port'[c] = 0
                             /\ openRes'[c] = NoResult
                        ELSE pc'[c] = "done" /\ ret'[c] = "exhausted"]_vars

C2_Witness ==
    \E c \in Clients :
        ret[c] = "success" /\ nMismatch[c] = 1 /\ nClose[c] = 1 /\ attempt[c] = 2

Calls == Len(rErrs)

Returned == rPc = "done"

AllFailedRetryable ==
    Calls >= 1 /\ \A i \in 1..Calls : rErrs[i] # Nil /\ RetryIf(rRetryIf, rErrs[i])

\* C4: with MaxAttempts = N > 1, an operation that always fails with a
\* retryable error and no cancellation is invoked exactly N times, and the
\* error returned is a RetryError with Attempts = N that unwraps to the
\* operation's last error.
C4_ExhaustsAllAttempts ==
    (Returned /\ rCtx = "live" /\ rGivenMax > 1 /\ AllFailedRetryable)
        => /\ Calls = rGivenMax
           /\ ErrorsIs(rResult, "ErrRetryExhausted")
           /\ Head(rResult) = Layer("Retry", 0, rGivenMax)
           /\ Tail(rResult) = rErrs[Calls]

C4_Witness ==
    /\ Returned /\ rCtx = "live" /\ rGivenMax = 3 /\ AllFailedRetryable
    /\ rRetryIf = "nil"

\* C5: when the first failure is one the predicate refuses to retry, the
\* operation is invoked exactly once whatever MaxAttempts is, and that same
\* error is returned, not wrapped.
C5_NonRetryableStopsImmediately ==
    (Calls >= 1 /\ rErrs[1] # Nil /\ ~RetryIf(rRetryIf, rErrs[1]))
        => Calls = 1 /\ Returned /\ rResult = rErrs[1]

C5_Witness ==
    /\ Calls = 1 /\ rErrs[1] = NewValidationError /\ rRetryIf = "nil"
    /\ rGivenMax = 3 /\ Returned

\* C6: with MaxAttempts = 1 a failing operation is invoked once and its error
\* is returned as it is, failing the ErrRetryExhausted identity check; with
\* MaxAttempts > 1 a run that used all its attempts returns a RetryError.
C6_SingleAttemptUnwrapped ==
    /\ (Returned /\ rGivenMax = 1 /\ Calls >= 1 /\ rErrs[1] # Nil)
          => /\ Calls = 1
             /\ rResult = rErrs[1]
             /\ ~ErrorsIs(rResult, "ErrRetryExhausted")
    /\ (Returned /\ rGivenMax = 1 /\ rCtx = "live") => Calls = 1
    /\ (Returned /\ rGivenMax > 1 /\ Calls = rGivenMax /\ rErrs[Calls] # Nil)
          => /\ Head(rResult).kind = "Retry"
             /\ Tail(rResult) = rErrs[Calls]

C6_Witness ==
    Returned /\ rGivenMax = 1 /\ Calls = 1 /\ rErrs[1] = NewNetworkError(PlainError)

\* C7: when the context is already cancelled as do starts, the operation is
\* never invoked and the context's own error is returned, not a RetryError,
\* whatever MaxAttempts is.
C7_CancelledBeforeStart ==
    rEntryCtx \in {"canceled", "deadline"}
        => /\ Calls = 0
           /\ Returned => /\ rResult = CtxErr(rCtx)
                          /\ ~ErrorsIs(rResult, "ErrRetryExhausted")

C7_Witness ==
    rEntryCtx = "canceled" /\ Returned /\ rGivenMax = 3

\* C8: when the context is cancelled after an attempt has failed with a
\* retryable error, during the backoff sleep or before the next attempt's
\* context check, the operation is not invoked again and a RetryError wrapping
\* the most recent error is returned.
C8_CancelledDuringBackoff ==
    (rCancelAt.pc \in {"sleep", "check"} /\ rCancelAt.calls >= 1)
        => /\ Calls = rCancelAt.calls
           /\ Returned => /\ ErrorsIs(rResult, "ErrRetryExhausted")
                          /\ Head(rResult).kind = "Retry"
                          /\ Tail(rResult) = rErrs[Calls]

C8_Witness ==
    rCancelAt.pc = "sleep" /\ rCancelAt.calls = 2 /\ Returned

\* C31: running do never modifies the RetryConfig the client holds, also when
\* its MaxAttempts is zero or negative: r.config.MaxAttempts stays what the
\* caller gave.
C31_PolicyNeverModified == rMaxAttempts = rGivenMax

\* C32: a RetryConfig with MaxAttempts <= 0 behaves as one with MaxAttempts = 1:
\* fn is invoked exactly once unless the context is done before the attempt,
\* a nil result returns nil, and a failure is returned as it is.
C32_NonPositiveActsAsOne ==
    rGivenMax <= 1 =>
        /\ Calls <= 1
        /\ Returned =>
             /\ Calls = 0 => (rCtx # "live" /\ rResult = CtxErr(rCtx))
             /\ Calls = 1 => rResult = rErrs[1]
             /\ rCtx = "live" => Calls = 1

C32_Witness ==
    /\ rGivenMax = 0 /\ Returned /\ Calls = 1
    /\ rErrs[1] = NewNetworkError(PlainError) /\ rResult = rErrs[1]

\* C35: whenever do returns a RetryError, its Attempts field is the number of
\* times fn was invoked in that call, on every exit path, and is at most
\* MaxAttempts.
C35_AttemptsIsInvocations ==
    (Returned /\ rResult # Nil /\ Head(rResult).kind = "Retry")
        => /\ Head(rResult).attempts = Calls
           /\ Head(rResult).attempts <= NormalizeMaxAttempts(rGivenMax)

\* cancelled after the first failure, seen at the check before attempt 2
C35_Witness ==
    /\ Returned /\ rGivenMax = 3 /\ Calls = 1
    /\ rCancelAt.pc = "check" /\ rCancelAt.calls = 1
    /\ Head(rResult).kind = "Retry" /\ Head(rResult).attempts = 1

\* C36: with MaxAttempts = N > 1, when attempts 1..N-1 fail with errors the
\* predicate retries and attempt N fails with an error it refuses, do returns
\* a RetryError with Attempts = N wrapping that last error, not the error
\* itself: the predicate is not asked about attempt N.
C36_LastAttemptSkipsPredicate ==
    (/\ Returned /\ rGivenMax > 1 /\ Calls = rGivenMax
     /\ \A i \in 1..(Calls - 1) : rErrs[i] # Nil /\ RetryIf(rRetryIf, rErrs[i])
     /\ rErrs[Calls] # Nil /\ ~RetryIf(rRetryIf, rErrs[Calls]))
        => /\ Head(rResult).kind = "Retry"
           /\ Head(rResult).attempts = rGivenMax
           /\ Tail(rResult) = rErrs[Calls]

C36_Witness ==
    /\ Returned /\ rGivenMax = 3 /\ Calls = 3 /\ rRetryIf = "nil" /\ rCtx = "live"
    /\ rErrs[1] = NewAPIError(500) /\ rErrs[2] = NewNetworkError(PlainError)
    /\ rErrs[3] = NewValidationError
    /\ rResult = NewRetryError(3, NewValidationError)

(***************************************************************************)
(* Claims about the classifier, checked under SpecClassify.                *)
(***************************************************************************)
OuterKind == IF cErr = Nil THEN "nil" ELSE Head(cErr).kind

\* an APIError as NewAPIError builds it: it wraps nothing
BareAPIError == cErr # Nil /\ Len(cErr) = 1 /\ Head(cErr).kind = "API"

\* no layer of the chain is of a kind the taxonomy knows
Unrecognized ==
    /\ cErr # Nil
    /\ \A i \in 1..Len(cErr) :
         cErr[i].kind \in {"Plain", "Canceled", "DeadlineExceeded", "Wrap"}

\* C9 as stated: an API error is retryable iff its status is one of 429, 500,
\* 502, 503, 504; Network and Timeout errors are retryable; Validation errors,
\* nil and unrecognized errors are not.
C9_ListedStatusCodes ==
    cDone =>
        /\ BareAPIError => (cRes <=> Head(cErr).status \in {429, 500, 502, 503, 504})
        /\ OuterKind \in {"Network", "Timeout"} => cRes
        /\ OuterKind \in {"Validation", "nil"} => ~cRes
        /\ Unrecognized => ~cRes

\* C9, amended: an API error is retryable iff its status is 429 or at least
\* 500 (501, 505 and 599 too); Network and Timeout errors are retryable;
\* Validation errors, nil and unrecognized errors are not.
C9_ServerErrorStatusCodes ==
    cDone =>
        /\ BareAPIError =>
              (cRes <=> (Head(cErr).status = 429 \/ Head(cErr).status >= 500))
        /\ OuterKind \in {"Network", "Timeout"} => cRes
        /\ OuterKind \in {"Validation", "nil"} => ~cRes
        /\ Unrecognized => ~cRes

C9_Witness == cDone /\ cErr = NewAPIError(501) /\ cRes

\* C10: every RetryError is not retryable, whatever error it wraps.
C10_RetryExhaustedIsTerminal ==
    (cDone /\ OuterKind = "Retry") => ~cRes

(***************************************************************************)
(* Claims about the port allocator, checked under SpecPick.                *)
(***************************************************************************)
RangePorts == MinPort..MaxPort

ExcludedRangePorts == TrueKeys(pkExcluded) \cap RangePorts

\* C11: for a range of K ports, PickPortExcluding returns a port of the range
\* that the map does not exclude whenever fewer than K ports of the range are
\* excluded, and fails with the "no available port" error when all K are.
C11_PickAvoidsExcluded ==
    pkDone =>
        /\ Cardinality(ExcludedRangePorts) < PortRangeSize(MinPort, MaxPort)
              => /\ pkErr = "nil"
                 /\ pkPort \in RangePorts
                 /\ pkPort \notin TrueKeys(pkExcluded)
        /\ Cardinality(ExcludedRangePorts) = PortRangeSize(MinPort, MaxPort)
              => /\ pkErr = "no available port in range"
                 /\ pkPort = 0

\* all ports of the range but the largest are excluded and the largest is picked
C11_Witness ==
    /\ pkDone
    /\ ExcludedRangePorts = RangePorts \ {MaxPort}
    /\ pkPort = MaxPort
    /\ pkErr = "nil"

(***************************************************************************)
(* Claims about the managed loop's port pick, arguments and open failures, *)
(* checked under Spec.                                                     *)
(***************************************************************************)
\* the ports the service has bound
BoundPorts(b) == {b[p] : p \in {q \in Profiles : b[q] # 0}}

\* C12: in an attempt whose snapshot query succeeded, the set of used ports is
\* the set of ports bound in that snapshot, the port picked for the open
\* request and carried by it lies in the range and is not one of them, and
\* when all range ports but one are bound the request uses that one.
C12_OpenUsesFreeRangePort ==
    [][\A c \in Clients :
         /\ (pc[c] = "snapshot" /\ pc'[c] # "snapshot" /\ snapErr'[c] = "nil")
               => /\ usedPorts'[c] = BoundPorts(bound)
                  /\ (RangePorts \ BoundPorts(bound) # {})
                        => /\ pc'[c] = "open"
                           /\ port'[c] \in RangePorts \ BoundPorts(bound)
                  /\ \A q \in RangePorts :
                        RangePorts \ BoundPorts(bound) = {q} => port'[c] = q
         /\ (pc[c] = "open" /\ pc'[c] # "open" /\ snapErr[c] = "nil")
               => /\ port[c] \in RangePorts
                  /\ port[c] \notin usedPorts[c]
                  /\ sentArgs'[c] # <<>>
                  /\ sentArgs'[c][1] = PortArg(port[c])]_vars

\* all ports of the range but one were bound in the snapshot and the attempt is
\* about to send its open request with the one that was free
C12_Witness ==
    \E c \in Clients :
        /\ pc[c] = "open" /\ snapErr[c] = "nil"
        /\ Cardinality(usedPorts[c]) = PortCount - 1
        /\ usedPorts[c] = RangePorts \ {port[c]}

\* the list carries the managed port and the all-interfaces address, and no
\* other debugging port or address
ManagedFlags(args, p) ==
    /\ Len(args) >= 2
    /\ args[1] = PortArg(p)
    /\ args[2] = AddressArg
    /\ \A i \in 1..Len(args) :
         /\ args[i].flag = "--remote-debugging-port" => args[i].val = p
         /\ args[i].flag = "--remote-debugging-address" => args[i].val = "0.0.0.0"

\* whatever the caller's options, the list built for a port of the range
\* carries that port and the all-interfaces address
ManagedFlagsForAllOptions ==
    \A q \in RangePorts, o \in AllOptions : ManagedFlags(buildManagedArgs(q, o), q)

\* C19: every open request of the managed branch carries
\* --remote-debugging-port=<the port picked in that attempt> and
\* --remote-debugging-address=0.0.0.0 whatever AllowLAN and CustomPort are, and
\* no debugging port other than the picked one: CustomPort is not used.
C19_ManagedArgsForcePortAndAddress ==
    [][\A c \in Clients :
         /\ (pc[c] = "open" /\ pc'[c] # "open")
               => /\ nOpen'[c] = nOpen[c] + 1
                  /\ port[c] \in RangePorts
                  /\ ManagedFlags(sentArgs'[c], port[c])
                  /\ ManagedFlagsForAllOptions
         /\ nOpen'[c] # nOpen[c] => pc[c] = "open"
         /\ (sentArgs'[c] # sentArgs[c] /\ pc[c] # "open") => sentArgs'[c] = <<>>]_vars

\* a request went out for a caller whose CustomPort is another port of the
\* range and who did not ask for LAN access
C19_Witness ==
    \E c \in Clients :
        /\ pc[c] = "verify"
        /\ sentArgs[c] = buildManagedArgs(port[c], Opts(c))
        /\ ~Opts(c).AllowLAN
        /\ Opts(c).CustomPort \in RangePorts
        /\ Opts(c).CustomPort # port[c]

\* the message of OpenErrors that carries a port-conflict phrase
ConflictMessages ==
    {<<"listen", "tcp:", "Address", "already", "in", "use">>}

\* C20: an open request that fails with a port-conflict message makes the loop
\* go on to the next attempt with a port still to be picked (after the last
\* attempt: to the terminal error); an open request that fails with any other
\* error ends Open at once with that error, and no open request follows.
C20_ConflictRetriesOtherErrorsReturn ==
    [][\A c \in Clients :
         /\ (pc[c] = "open" /\ pc'[c] \notin {"open", "verify"})
               => /\ nOpen'[c] = nOpen[c] + 1
                  /\ lastErr'[c] \in OpenErrors
                  /\ IF lastErr'[c].msg \in ConflictMessages
                       THEN IF attempt[c] < EffectiveMaxRetries(portRetries[c])
                              THEN /\ pc'[c] = "snapshot"
                                   /\ ret'[c] = "none"
                                   /\ attempt'[c] = attempt[c] + 1
                                   /\ port'[c] = 0
                              ELSE pc'[c] = "done" /\ ret'[c] = "exhausted"
                       ELSE pc'[c] = "done" /\ ret'[c] = "openErr"
         /\ ret[c] = "openErr"
               => /\ ret'[c] = "openErr"
                  /\ nOpen'[c] = nOpen[c]
                  /\ lastErr'[c] = lastErr[c]]_vars

\* a conflict on the first attempt, then another failure on the second
C20_Witness ==
    \E c \in Clients :
        /\ ret[c] = "openErr"
        /\ attempt[c] = 2 /\ nOpen[c] = 2
        /\ lastErr[c].msg = <<"profile", "already", "opened">>

\* C26: in a managed attempt a failed snapshot query is not fatal: the attempt
\* goes on as if the snapshot were empty, with a port picked from the whole
\* range, and sends its open request with that port.
C26_SnapshotFailureNotFatal ==
    [][\A c \in Clients :
         /\ (pc[c] = "snapshot" /\ snapErr'[c] = "err")
               => /\ usedPorts'[c] = {}
                  /\ port'[c] \in RangePorts
                  /\ pc'[c] = "open" /\ ret'[c] = "none"
         /\ (pc[c] = "open" /\ snapErr[c] = "err" /\ pc'[c] # "open")
               => /\ nOpen'[c] = nOpen[c] + 1
                  /\ sentArgs'[c][1] = PortArg(port[c])]_vars

\* the snapshot query failed, the attempt picked a port that a browser of the
\* service is bound to, and sent its open request
C26_Witness ==
    \E c \in Clients :
        /\ pc[c] = "open" /\ snapErr[c] = "err"
        /\ port[c] \in BoundPorts(bound)

\* the order of the steps of one attempt, and what may follow an attempt
StepOrder ==
    {<<"idle", "snapshot">>, <<"snapshot", "open">>, <<"snapshot", "done">>,
     <<"open", "verify">>, <<"open", "snapshot">>, <<"open", "done">>,
     <<"verify", "close">>, <<"verify", "done">>,
     <<"close", "snapshot">>, <<"close", "done">>}

\* C34: the steps of a managed attempt come in the order snapshot, pick, open
\* request, verification, close: the open request of an attempt is sent once,
\* after that attempt's own snapshot and pick, with a port the snapshot does
\* not show in use; every attempt starts with no snapshot and no port and
\* takes its snapshot from what the service reports then.
C34_AttemptStepsInOrder ==
    /\ [](\A c \in Clients :
            /\ pc[c] = "open"
                 => /\ snapErr[c] # "unset"
                    /\ port[c] \in RangePorts \ usedPorts[c]
            /\ pc[c] \in {"snapshot", "open"} => nOpen[c] = attempt[c] - 1
            /\ pc[c] \in {"verify", "close"} => nOpen[c] = attempt[c])
    /\ [][\A c \in Clients :
            /\ pc'[c] # pc[c] => <<pc[c], pc'[c]>> \in StepOrder
            /\ attempt'[c] # attempt[c]
                 => /\ attempt'[c] = attempt[c] + 1
                    /\ pc'[c] = "snapshot"
                    /\ snapErr'[c] = "unset"
                    /\ usedPorts'[c] = {}
                    /\ port'[c] = 0
            /\ (pc[c] = "snapshot" /\ pc'[c] = "open")
                 => /\ usedPorts'[c] = IF snapErr'[c] = "nil"
                                         THEN getUsedPortsSet(PortsSnapshot(bound))
                                         ELSE {}
                    /\ port'[c] \in RangePorts \ usedPorts'[c]]_vars

\* the second attempt has gone from its snapshot to the close
C34_Witness ==
    \E c \in Clients :
        /\ pc[c] = "close" /\ attempt[c] = 2
        /\ nOpen[c] = 2 /\ nClose[c] = 1

\* C38: the close request is sent only after an open request that succeeded
\* and whose verification showed another port than the requested one, once for
\* each such mismatch and before the next attempt or the return; none is sent
\* after a failed open request or a verified success; whether the close
\* succeeds or fails, the loop goes on to the next attempt or, after the last,
\* to the terminal error.
C38_CloseOnlyAfterMismatch ==
    /\ [](\A c \in Clients :
            /\ nMismatch[c] = nClose[c] + (IF pc[c] = "close" THEN 1 ELSE 0)
            /\ pc[c] = "close"
                 => /\ verifyErr[c] = "nil"
                    /\ actualPort[c] # port[c]
                    /\ nOpen[c] = attempt[c]
            /\ (ret[c] = "success" /\ verifyErr[c] = "nil")
                 => actualPort[c] = port[c]
            /\ ret[c] \in {"none", "success", "openErr", "allocErr", "exhausted"})
    /\ [][\A c \in Clients :
            /\ nClose'[c] # nClose[c]
                 => /\ pc[c] = "close"
                    /\ nClose'[c] = nClose[c] + 1
                    /\ nOpen'[c] = nOpen[c]
                    /\ IF attempt[c] < EffectiveMaxRetries(portRetries[c])
                         THEN /\ pc'[c] = "snapshot" /\ ret'[c] = "none"
                              /\ attempt'[c] = attempt[c] + 1
                         ELSE pc'[c] = "done" /\ ret'[c] = "exhausted"
            /\ (pc[c] = "close" /\ pc'[c] # "close") => nClose'[c] = nClose[c] + 1
            /\ pc[c] # "close" => nClose'[c] = nClose[c]]_vars

\* the close after the first attempt's mismatch failed, the browser is still
\* open, and the second attempt has begun
C38_Witness ==
    \E c \in Clients :
        /\ pc[c] = "snapshot" /\ attempt[c] = 2
        /\ nClose[c] = 1 /\ nMismatch[c] = 1
        /\ bound[c] # 0

\* C39: when the snapshot of an attempt shows every port of the range in use,
\* Open returns the allocation error at once: that attempt sends no open
\* request, and no later attempt is made although attempts are left.
C39_FullRangeEndsOpen ==
    /\ [](\A c \in Clients :
            ret[c] = "allocErr"
                => /\ pc[c] = "done"
                   /\ snapErr[c] = "nil"
                   /\ RangePorts \subseteq usedPorts[c]
                   /\ nOpen[c] = attempt[c] - 1)
    /\ [][\A c \in Clients :
            /\ (/\ pc[c] = "snapshot" /\ pc'[c] # "snapshot"
                /\ snapErr'[c] = "nil"
                /\ RangePorts \subseteq getUsedPortsSet(PortsSnapshot(bound)))
                 => /\ pc'[c] = "done" /\ ret'[c] = "allocErr"
                    /\ nOpen'[c] = nOpen[c]
                    /\ attempt'[c] = attempt[c]
            /\ ret[c] = "allocErr"
                 => /\ ret'[c] = "allocErr"
                    /\ nOpen'[c] = nOpen[c]
                    /\ attempt'[c] = attempt[c]]_vars

\* the allocation error on the second of ten attempts
C39_Witness ==
    /\ ret[Caller] = "allocErr"
    /\ attempt[Caller] = 2 /\ nOpen[Caller] = 1
    /\ EffectiveMaxRetries(portRetries[Caller]) = DefaultMaxRetries

(***************************************************************************)
(* Claims about the returned endpoint, checked under SpecEndpoint.         *)
(***************************************************************************)
\* the OpenResults the call has returned with a nil error
Returned_Results ==
    (IF eRet = "success" THEN {eRes} ELSE {})
        \cup (IF ret[Caller] = "success" THEN {retRes[Caller]} ELSE {})

\* C18 as stated: every OpenResult a successful Open (native or managed),
\* OpenRaw or WaitForReady returns has an endpoint that begins with the scheme.
C18_EndpointHasScheme ==
    \A r \in Returned_Results : r.scheme

\* C18, amended: every OpenResult a successful Open (native or managed),
\* OpenRaw or WaitForReady returns has an endpoint that begins with the scheme
\* or is empty; WaitForReady, and an Open that went through the readiness
\* wait, never return an empty one.
C18_EndpointHasSchemeOrIsEmpty ==
    /\ \A r \in Returned_Results : r.scheme \/ r.port = 0
    /\ (eRet = "success" /\ eOp = "WaitForReady") => eRes.scheme /\ eRes.port # 0
    /\ (eRet = "success" /\ eOp = "OpenNative" /\ eWaitReady)
          => eRes.scheme /\ eRes.port # 0

\* the native branch has put the scheme in front of an endpoint that came
\* without it
C18_Witness ==
    /\ eOp = "OpenNative" /\ ~eWaitReady
    /\ eRet = "success"
    /\ eRes.scheme /\ eRes.port # 0

(***************************************************************************)
(* Claims about requests, checked under SpecRequest.                       *)
(***************************************************************************)
IsResponse(o, status) == o.kind = "response" /\ o.status = status

\* HTTP 200 with an envelope in the body
IsDecodable(o) == IsResponse(o, 200) /\ o.body \in JsonBodies

\* the first k round trips were answered with HTTP 500
FirstAnswers500(k) == Len(hOut) >= k /\ \A i \in 1..k : IsResponse(hOut[i], 500)

\* C13: with MaxAttempts = N and the first k < N requests answered with HTTP
\* 500, the call does not give up while its context is live, and when the next
\* request is answered successfully the call succeeds and the service has seen
\* exactly k + 1 requests.
C13_SucceedsAfterServerErrors ==
    \A k \in 0..MaxPolicyAttempts :
        (k < rGivenMax /\ FirstAnswers500(k))
            => /\ (Len(hOut) = k /\ rCtx = "live") => ~Returned
               /\ (Len(hOut) > k /\ IsDecodable(hOut[k + 1]))
                     => /\ Returned
                        /\ rResult = Nil
                        /\ Len(hOut) = k + 1
                        /\ hRequests = k + 1

\* two HTTP 500 answers, then success, with MaxAttempts = 3
C13_Witness ==
    /\ rGivenMax = 3
    /\ FirstAnswers500(2)
    /\ Len(hOut) = 3 /\ IsDecodable(hOut[3])
    /\ Returned /\ rResult = Nil
    /\ hRequests = 3

\* C14: when the service answers HTTP 400, the call sends exactly one request
\* whatever MaxAttempts is, and returns an API error with status 400 that is not
\* a RetryError.
C14_ClientErrorNotRetried ==
    (Len(hOut) >= 1 /\ IsResponse(hOut[1], 400))
        => /\ Len(hOut) = 1
           /\ hRequests = 1
           /\ Returned
           /\ rResult = NewAPIError(400)
           /\ ErrorsIs(rResult, "ErrAPI")
           /\ ~ErrorsIs(rResult, "ErrRetryExhausted")
           /\ hDone => hErr = rResult

C14_Witness ==
    /\ rGivenMax = 3
    /\ Len(hOut) = 1 /\ IsResponse(hOut[1], 400)
    /\ hDone /\ hErr = NewAPIError(400)

\* the round trip failed: Do or the read of the body returned an error
TransportFailure(o) == o.kind \in {"doErr", "readErr"}

\* the call's context was cancelled or expired while a round trip was in
\* flight, and that round trip has come back
CtxDoneInFlight ==
    /\ rCancelAt.pc = "call"
    /\ Len(hOut) > rCancelAt.calls
    /\ TransportFailure(hOut[rCancelAt.calls + 1])

\* C15 as stated: a request whose context is cancelled or expires in flight
\* never succeeds; cancellation and deadline expiry are returned as Timeout
\* errors and every other transport failure as a Network error.
C15_CancellationIsTimeout ==
    /\ \A i \in 1..Len(hOut) :
         TransportFailure(hOut[i])
            => /\ hExec[i].err # Nil
               /\ IF hOut[i].cause \in {"canceled", "deadline"}
                    THEN Head(hExec[i].err).kind = "Timeout"
                    ELSE Head(hExec[i].err).kind = "Network"
    /\ (hDone /\ CtxDoneInFlight) => hErr # Nil

\* C15, amended: a request whose context is cancelled or expires in flight
\* never succeeds; a deadline expiry reported by the round trip is returned as
\* a Timeout error, a cancellation reported by the round trip as the
\* transport's own error (it wraps context.Canceled and is neither Timeout nor
\* Network), and every other transport failure, any failure to read the body
\* included, as a Network error.
C15_DeadlineIsTimeoutCancelIsRaw ==
    /\ \A i \in 1..Len(hOut) :
         TransportFailure(hOut[i])
            => /\ hExec[i].err # Nil
               /\ CASE hOut[i].kind = "doErr" /\ hOut[i].cause = "deadline" ->
                         /\ Head(hExec[i].err).kind = "Timeout"
                         /\ ErrorsIs(hExec[i].err, "DeadlineExceeded")
                    [] hOut[i].kind = "doErr" /\ hOut[i].cause = "canceled" ->
                         /\ Head(hExec[i].err).kind = "Wrap"
                         /\ ErrorsIs(hExec[i].err, "Canceled")
                         /\ ~ErrorsIs(hExec[i].err, "ErrTimeout")
                         /\ ~ErrorsIs(hExec[i].err, "ErrNetwork")
                    [] OTHER -> Head(hExec[i].err).kind = "Network"
    /\ (Returned /\ CtxDoneInFlight) => rResult # Nil
    /\ (hDone /\ CtxDoneInFlight) => hErr # Nil

\* the context was cancelled during the round trip and the call has returned
C15_Witness ==
    /\ hDone
    /\ rCancelAt.pc = "call"
    /\ Len(hOut) = 1
    /\ hOut[1].kind = "doErr" /\ hOut[1].cause = "canceled"
    /\ hErr = Errorf(ctxCanceled)

\* C16: every response with a status outside 200..299 gives an API error with
\* that status and the body as its message, and every response with a status
\* in 200..299 and an envelope in its body is decoded, not reported as an error.
C16_Non2xxIsAPIError ==
    \A i \in 1..Len(hOut) :
        hOut[i].kind = "response"
            => IF hOut[i].status \in 200..299
                 THEN hOut[i].body \in JsonBodies
                         => /\ hExec[i].err = Nil
                            /\ hExec[i].envelope = hOut[i].body
                 ELSE /\ hExec[i].err = NewAPIError(hOut[i].status)
                      /\ hExec[i].msg = hOut[i].body

\* C17: when the service answers a 2xx response whose envelope has
\* success=false, the caller gets an error, and it is an API error: the
\* identity check against ErrAPI succeeds.
C17_EnvelopeFailureIsAPIError ==
    (/\ hDone
     /\ Len(hOut) >= 1
     /\ hOut[Len(hOut)].kind = "response"
     /\ hOut[Len(hOut)].status \in 200..299
     /\ hOut[Len(hOut)].body = "success=false"
     /\ hExec[Len(hExec)].err = Nil)
        => hErr # Nil /\ ErrorsIs(hErr, "ErrAPI")

\* HTTP 200 with an envelope whose success field is false
IsEnvelopeFailure(o) == IsResponse(o, 200) /\ o.body = "success=false"

\* C37: a call answered with HTTP 200 and an envelope with success=false sends
\* exactly one request whatever MaxAttempts is: the retry engine sees a nil
\* error and returns, no round trip follows such an answer, and the caller's
\* look at the envelope sends nothing more.
C37_EnvelopeFailureNotRetried ==
    /\ \A i \in 1..Len(hOut) :
         IsEnvelopeFailure(hOut[i])
            => /\ i = Len(hOut)
               /\ hExec[i].err = Nil
               /\ Returned /\ rResult = Nil
    /\ (Len(hOut) >= 1 /\ IsEnvelopeFailure(hOut[1]))
            => /\ Len(hOut) = 1
               /\ hRequests = 1
               /\ hDone => hErr = PlainError

C37_Witness ==
    /\ rGivenMax = 3
    /\ Len(hOut) = 1 /\ IsEnvelopeFailure(hOut[1])
    /\ hRequests = 1
    /\ hDone /\ hErr = PlainError

(***************************************************************************)
(* Claims about termination, checked under the fair specifications.        *)
(***************************************************************************)
\* the attempts the claim allows a client: MaxRetries, 10 when it is not positive
AllowedAttempts(c) == IF portRetries[c] > 0 THEN portRetries[c] ELSE 10

\* C21: a managed Open makes at most MaxRetries loop attempts (10 when
\* MaxRetries is not positive) and always terminates; it returns the terminal
\* error only after every allowed attempt has ended in a port conflict or an
\* ownership mismatch, and the terminal error wraps the failure of the last one.
C21_ManagedOpenBoundedAndTerminates ==
    /\ [](/\ attempt[Caller] <= AllowedAttempts(Caller)
          /\ nOpen[Caller] <= attempt[Caller]
          /\ ret[Caller] = "exhausted"
                => /\ attempt[Caller] = AllowedAttempts(Caller)
                   /\ nOpen[Caller] = AllowedAttempts(Caller)
                   /\ \/ lastErr[Caller] = MismatchErr
                      \/ lastErr[Caller].msg \in ConflictMessages)
    /\ [][ret'[Caller] = "exhausted" /\ ret[Caller] # "exhausted"
            => \/ pc[Caller] = "close" /\ lastErr'[Caller] = MismatchErr
               \/ /\ pc[Caller] = "open"
                  /\ lastErr'[Caller].msg \in ConflictMessages]_vars
    /\ (eOp = "OpenManaged") ~> (pc[Caller] = "done")

\* MaxRetries not set: ten attempts, conflicts and mismatches among them, then
\* the terminal error
C21_Witness ==
    /\ portRetries[Caller] = 0
    /\ ret[Caller] = "exhausted"
    /\ attempt[Caller] = 10
    /\ nMismatch[Caller] >= 1 /\ nMismatch[Caller] < 10

\* the iterations the configured timeout allows: timeout / interval, at least
\* one, with 30 and 2 seconds for what is not set
AllowedPolls ==
    LET t == IF eTimeout > 0 THEN eTimeout ELSE 30
        i == IF ePollInterval > 0 THEN ePollInterval ELSE 2
    IN  IF t \div i >= 1 THEN t \div i ELSE 1

\* C22: poll-for-ready terminates; when all the iterations the timeout allows
\* have run and none has seen a port for the profile it fails with the Timeout
\* error and returns no result, and it gives the Timeout error in no other case.
C22_PollTerminatesWithTimeout ==
    /\ []((ePc = "done" /\ eQueries = AllowedPolls /\ eVersion = "none")
             => eRet = "timeout" /\ eRes = NoResult /\ ~eWs)
    /\ [](eRet = "timeout"
             => eQueries = AllowedPolls /\ eVersion = "none" /\ eRes = NoResult)
    /\ (ePc \in {"wait", "query", "version"}) ~> (ePc = "done")

\* two polls or more, all without a port, under a live context
C22_Witness ==
    /\ eRet = "timeout"
    /\ eCtx = "live"
    /\ eQueries = AllowedPolls /\ eQueries >= 2
    /\ bound[Caller] = 0

(***************************************************************************)
(* Claims about poll-for-ready and the native branch, checked under        *)
(* SpecEndpoint.                                                           *)
(***************************************************************************)
Cancelled == eCancelAt.pc # "never"

\* C23 as stated: once the context is cancelled the loop starts no further
\* port-snapshot query and the call returns the cancellation error.
C23_CancelStopsPolling ==
    Cancelled
        => /\ eQueries = eCancelAt.queries
           /\ ePc = "done" => eRet = "ctxErr"

\* C23, amended: once the context is cancelled the loop starts no further
\* port-snapshot query.  Cancelled during the wait before an iteration, the call
\* returns the cancellation error.  Cancelled while an iteration's
\* port-snapshot query or version fetch is in flight, the call is not told
\* before the next select: the iteration may still return its result (a
\* partial one when the version fetch began after the cancellation);
\* otherwise the call returns the cancellation error if an iteration was left
\* and the Timeout error if the iteration was the last.
C23_CancelSeenAtNextSelect ==
    Cancelled
        => /\ eQueries = eCancelAt.queries
           /\ ePc = "done"
                 => CASE eCancelAt.pc = "wait" /\ eCancelAt.left > 0 ->
                            eRet = "ctxErr" /\ eRes = NoResult
                      [] eRet = "success" ->
                            /\ eCancelAt.pc \in {"query", "version"}
                            /\ eCancelAt.pc = "query" => ~eWs /\ eVersion = "err"
                      [] eCancelAt.left > 0 -> eRet = "ctxErr" /\ eRes = NoResult
                      [] OTHER -> eRet = "timeout" /\ eRes = NoResult

\* cancelled during the wait before the second iteration: one query was made,
\* and the call returned the context's error
C23_Witness ==
    /\ eCancelAt.pc = "wait" /\ eCancelAt.queries = 1 /\ eCancelAt.left > 0
    /\ ePc = "done" /\ eRet = "ctxErr"
    /\ eQueries = 1

\* the call returned a result out of waitForBrowserReady's loop
ReadyReturned == eRet = "success" /\ eQueries >= 1

\* C27 as stated: poll-for-ready returns an OpenResult only from an iteration
\* whose snapshot showed a port for the profile and whose version fetch
\* succeeded: complete with a websocket URL, partial without one.
C27_ResultOnlyAfterVersionFetched ==
    /\ ReadyReturned
          => /\ eRes.port # 0 /\ eRes.port = bound[Caller] /\ eRes.scheme
             /\ eVersion \in {"noWs", "ws"}
             /\ eWs <=> eVersion = "ws"
    /\ eRet \in {"timeout", "ctxErr"} => eRes = NoResult /\ ~eWs

\* C27, amended: poll-for-ready returns an OpenResult only from an iteration
\* whose snapshot showed a port for the profile, after it has tried the version
\* fetch: complete if the fetch succeeded with a websocket URL, partial (HTTP
\* endpoint only) if it succeeded without one or failed.
C27_ResultOnlyAfterPortSeen ==
    /\ ReadyReturned
          => /\ eRes.port # 0 /\ eRes.port = bound[Caller] /\ eRes.scheme
             /\ eVersion \in {"err", "noWs", "ws"}
             /\ eWs <=> eVersion = "ws"
    /\ eRet \in {"timeout", "ctxErr"} => eRes = NoResult /\ ~eWs

\* the version fetch failed under a live context and the partial result came back
C27_Witness ==
    /\ ReadyReturned
    /\ eCtx = "live"
    /\ eVersion = "err" /\ ~eWs
    /\ eRes.port = bound[Caller] /\ eRes.port # 0

\* C28: with WaitTimeout and PollInterval both positive, the time poll-for-ready
\* spends waiting, the poll interval once for every iteration, never exceeds
\* WaitTimeout.
C28_WaitWithinTimeout ==
    (eTimeout > 0 /\ ePollInterval > 0)
        => /\ eWaited = eQueries * ePollInterval
           /\ eWaited <= eTimeout

\* the native Open has sent its open request and has its answer
NativeAnswered == eOp = "OpenNative" /\ ePc = "idle" /\ ePc' # "idle"

\* the answer says the browser is still starting
SaysStarting(a) == a.ans = "opening"

\* the answer is a success without a usable endpoint
SaysNoEndpoint(a) == a.ans = "ok" /\ a.empty

\* what Open returns when it returns the answer's own outcome
OwnOutcome(a) ==
    CASE a.ans = "requestErr" -> "requestErr"
      [] a.ans \in {"opening", "refused"} -> "apiErr"
      [] a.ans = "badData" -> "parseErr"
      [] OTHER -> "success"

\* exactly one open request is issued by a native Open
OneOpenRequest == eOp = "OpenNative" => eOpens = IF ePc = "idle" THEN 0 ELSE 1

\* C29 as stated: the native branch issues exactly one open request, and if the
\* answer says the browser is still starting, or if WaitReady was asked for and
\* the result has no usable endpoint, Open goes to poll-for-ready instead of
\* returning the answer's outcome.
C29_NativeGoesToPolling ==
    /\ []OneOpenRequest
    /\ [][NativeAnswered
            => ((SaysStarting(eAnswer') \/ (eWaitReady /\ SaysNoEndpoint(eAnswer')))
                   => ePc' = "wait" /\ eRet' = "none")]_vars

\* C29, amended: the native branch issues exactly one open request, and if
\* WaitReady was asked for and the answer says the browser is still starting or
\* its result has no usable endpoint, Open goes to poll-for-ready instead of
\* returning the answer's outcome; in every other case, a still-starting answer
\* without WaitReady included, it returns the answer's outcome.
C29_NativeGoesToPollingIfWaitReady ==
    /\ []OneOpenRequest
    /\ [][NativeAnswered
            => IF eWaitReady /\ (SaysStarting(eAnswer') \/ SaysNoEndpoint(eAnswer'))
                 THEN ePc' = "wait" /\ eRet' = "none"
                 ELSE ePc' = "done" /\ eRet' = OwnOutcome(eAnswer')]_vars

\* WaitReady was asked for, the answer said the browser was starting, and the
\* call has gone on to poll
C29_Witness ==
    /\ eOp = "OpenNative" /\ eWaitReady
    /\ eAnswer.ans = "opening"
    /\ eOpens = 1
    /\ eQueries >= 1

\* a step of the managed loop, none of which reads WaitReady, WaitTimeout or
\* PollInterval
ManagedStep ==
    \/ OpenCall(Caller)
    \/ Snapshot(Caller)
    \/ OpenOk(Caller)
    \/ OpenFail(Caller)
    \/ VerifyFail(Caller)
    \/ Verify(Caller)
    \/ CloseAfterMismatch(Caller)

\* C40: an Open in Managed Mode never enters waitForBrowserReady, whatever
\* WaitReady, WaitTimeout and PollInterval the caller set: it makes no poll,
\* sleeps no poll interval and fetches no version, every step it takes is a
\* step of the managed loop, one open request an attempt, and what it returns
\* on success is the answer of its open request.
C40_ManagedOpenNeverPolls ==
    /\ [](eOp = "OpenManaged"
            => /\ ePc = "done" /\ eRet = "none"
               /\ ePolls = 0 /\ eQueries = 0 /\ eWaited = 0 /\ eVersion = "none"
               /\ eOpens = 0
               /\ pc[Caller] \in {"snapshot", "open"} => nOpen[Caller] = attempt[Caller] - 1
               /\ pc[Caller] \in {"verify", "close"} => nOpen[Caller] = attempt[Caller]
               /\ ret[Caller] = "success"
                    => retRes[Caller] = EnsurePrefix(openRes[Caller]))
    /\ [][eOp = "OpenManaged" => ManagedStep]_vars

\* WaitReady is set, the open request's answer held no endpoint and the
\* verification query failed: Open has returned the empty result, unpolled
C40_Witness ==
    /\ eOp = "OpenManaged"
    /\ eWaitReady /\ eTimeout = MaxWait /\ ePollInterval = 1
    /\ ret[Caller] = "success" /\ verifyErr[Caller] = "err"
    /\ retRes[Caller].port = 0
    /\ eQueries = 0

(***************************************************************************)
(* Claims about the mode of a client, checked under SpecMode.              *)
(***************************************************************************)
\* the configuration the client was built with is Managed, as the claim has it
ManagedConfig == mMin > 0 /\ mMax > 0 /\ mMin <= mMax

\* C24: a port configuration is Managed iff minPort > 0, maxPort > 0 and
\* minPort <= maxPort; Open takes the managed branch exactly for clients built
\* with a Managed configuration and the native branch otherwise, and the mode
\* never changes after construction.
C24_ManagedIffRangeValid ==
    /\ [](mBuilt = "yes" => (mManager <=> ManagedConfig))
    /\ [](mBranch # "none"
            => /\ mBuilt = "yes"
               /\ mBranch = IF ManagedConfig THEN "managed" ELSE "native")
    /\ [][mBuilt = "yes"
            => /\ mBuilt' = "yes"
               /\ mManager' = mManager /\ mMin' = mMin /\ mMax' = mMax
               /\ mBranch # "none" => mBranch' = mBranch]_vars

\* a range of one port: the client is managed, and Open took the managed branch
\* both times
C24_Witness ==
    /\ mMin = mMax /\ mMin > 0
    /\ mBranch = "managed"
    /\ mOpens = 2

(***************************************************************************)
(* Claims about the backoff delay, checked under SpecDelay.                *)
(***************************************************************************)
\* BaseDelay * Multiplier^(i-1) capped at MaxDelay when it is set, in whole ticks
CappedBackoff(i) ==
    LET num == dBase * Pow(dMult, i - 1)
        den == Pow(2, i - 1)
    IN  IF dMax > 0 /\ num > dMax * den THEN dMax ELSE num \div den

\* the delays do not decrease from one attempt to the next
NonDecreasing == \A i \in 1..(Len(dDelays) - 1) : dDelays[i] <= dDelays[i + 1]

\* without jitter every delay is the capped backoff
ExactWithoutJitter ==
    dJitter = 0 => \A i \in 1..Len(dDelays) : dDelays[i] = CappedBackoff(i)

\* C25 as stated: for every policy calculateDelay(attempt) is non-decreasing in
\* attempt until it saturates at MaxDelay, and with Jitter = 0 it is
\* BaseDelay * Multiplier^(attempt-1) capped at MaxDelay.
C25_DelayMonotoneAndExact == NonDecreasing /\ ExactWithoutJitter

\* C25, amended: for every policy with Jitter = 0, calculateDelay(attempt) is
\* BaseDelay * Multiplier^(attempt-1) capped at MaxDelay (when MaxDelay is set)
\* for every attempt >= 1; it is non-decreasing in attempt until it saturates
\* at MaxDelay when Jitter = 0 and Multiplier >= 1.
C25_DelayExactMonotoneIfGrowing ==
    /\ ExactWithoutJitter
    /\ (dJitter = 0 /\ dMult >= 2) => NonDecreasing

\* no jitter, Multiplier 2, BaseDelay 3, MaxDelay 8: 3, 6, then the cap
C25_Witness ==
    /\ dJitter = 0 /\ dMult = 4 /\ dBase = 3 /\ dMax = 8
    /\ Len(dDelays) = 4
    /\ dDelays = <<3, 6, 8, 8>>

\* C30: when MaxDelay is set, no delay the engine sleeps between two attempts
\* exceeds it, whatever the attempt and the jitter.
C30_SleepWithinMaxDelay ==
    dMax > 0 => \A i \in 1..Len(dDelays) : dDelays[i] <= dMax

(***************************************************************************)
(* Claims about the open request's fields, checked under SpecConfig.       *)
(***************************************************************************)
\* the options Open works with
Given == OptsOrDefault(oOpts)

\* the request carries a start URL
SendsStartURL == oBody.newPageUrl # "absent"

\* a headless Open sends no start URL and ignoreDefaultUrls = true
HeadlessIsBlank ==
    (oPc = "sent" /\ Given.Headless)
        => ~SendsStartURL /\ oBody.ignoreDefaultUrls = "true"

InitClassify == ClassifyInit /\ RetryIdle /\ OpenIdle /\ PickIdle
    /\ EndpointIdle /\ RequestIdle /\ ModeIdle /\ DelayIdle /\ ConfigIdle

SpecClassify == InitClassify /\ [][ClassifyNext]_vars

InitRetry == RetryInit /\ ClassifyIdle /\ OpenIdle /\ PickIdle
    /\ EndpointIdle /\ RequestIdle /\ ModeIdle /\ DelayIdle /\ ConfigIdle

SpecRetry == InitRetry /\ [][RetryNext]_vars

InitPick == PickInit /\ ClassifyIdle /\ RetryIdle /\ OpenIdle
    /\ EndpointIdle /\ RequestIdle /\ ModeIdle /\ DelayIdle /\ ConfigIdle

SpecPick == InitPick /\ [][PickNext]_vars

InitEndpoint ==
    /\ EndpointInit /\ OpenInitFor(eOp) /\ ClassifyIdle /\ RetryIdle /\ PickIdle
    /\ RequestIdle /\ ModeIdle /\ DelayIdle /\ ConfigIdle

SpecEndpoint == InitEndpoint /\ [][EndpointNext]_vars

\* the call's goroutine keeps running, and every request it sends is answered
\* or fails
FairEndpoint == SpecEndpoint /\ WF_vars(EndpointNext)

InitRequest ==
    /\ RequestInit /\ ClassifyIdle /\ OpenIdle /\ PickIdle /\ EndpointIdle
    /\ ModeIdle /\ DelayIdle /\ ConfigIdle

SpecRequest == InitRequest /\ [][RequestNext]_vars

InitMode ==
    /\ ModeInit /\ ClassifyIdle /\ RetryIdle /\ OpenIdle /\ PickIdle /\ EndpointIdle
    /\ RequestIdle /\ DelayIdle /\ ConfigIdle

SpecMode == InitMode /\ [][ModeNext]_vars

InitDelay ==
    /\ DelayInit /\ ClassifyIdle /\ RetryIdle /\ OpenIdle /\ PickIdle /\ EndpointIdle
    /\ RequestIdle /\ ModeIdle /\ ConfigIdle

SpecDelay == InitDelay /\ [][DelayNext]_vars

InitConfig ==
    /\ ConfigInit /\ ClassifyIdle /\ RetryIdle /\ OpenIdle /\ PickIdle /\ EndpointIdle
    /\ RequestIdle /\ ModeIdle /\ DelayIdle

SpecConfig == InitConfig /\ [][ConfigNext]_vars

Init == OpenInit /\ ClassifyIdle /\ RetryIdle /\ PickIdle
    /\ EndpointIdle /\ RequestIdle /\ ModeIdle /\ DelayIdle /\ ConfigIdle

Next == OpenNext

Spec == Init /\ [][Next]_vars

====
